---------------------------- MODULE Spec2Model ----------------------------
(***************************************************************************)
(* A model of sheetra: the document model (Workbook, Worksheet, Row,       *)
(* Column, Cell), the section/layout engine (SectionBuilder, Section), its *)
(* aggregation code and the CSV writer.                                    *)
(*                                                                         *)
(* JavaScript values are tagged records, so that the conversions the code  *)
(* applies (||, String(), isNaN, != null, typeof) are computed as the code *)
(* computes them.  Strings are sequences of one-character strings.         *)
(***************************************************************************)
EXTENDS Integers, Sequences, FiniteSets, TLC

VARIABLES
  sheets,      \* Workbook.sheets: the ordered list of Worksheets
  properties,  \* Workbook.properties: key -> value
  data,        \* the record list handed to the SectionBuilder operation
  currentRow,  \* SectionBuilder.currentRow
  sections,    \* SectionBuilder.sections: title -> the configuration registered under it
  rowKinds,    \* history: which statement of the builder emitted each row of sheets[1]
  call,        \* history: the last operation invoked, with its arguments
  csv,         \* the text CSVWriter.generateCSVData returned last
  exported,    \* the outcome of the last export: the writer that ran and its data, or the error
  builderStyle, \* StyleBuilder.style: the fields set so far, border a reference into heap
  heap,        \* the Border objects allocated by the StyleBuilder, by reference
  built        \* the styles build() has returned, in order

vars == <<sheets, properties, data, currentRow, sections, rowKinds, call, csv,
          exported, builderStyle, heap, built>>

-----------------------------------------------------------------------------
(* Bounds of the model *)

MaxOps == 3        \* mutator calls per behaviour of the document model
MaxSheets == 2     \* worksheets per workbook
MaxIndex == 1      \* largest row / cell / column index addressed by a mutator
MaxRecords == 3    \* records in the list handed to a SectionBuilder operation
MaxCalls == 2      \* SectionBuilder operations per behaviour

-----------------------------------------------------------------------------
(* JavaScript values *)

Undefined == [t |-> "undefined"]
Null == [t |-> "null"]
NaN == [t |-> "NaN"]
PosInfinity == [t |-> "Infinity"]
NegInfinity == [t |-> "-Infinity"]
Num(n) == [t |-> "number", v |-> n]
Bool(b) == [t |-> "boolean", v |-> b]
Str(cs) == [t |-> "string", v |-> cs]
DateOf(y, m, d) == [t |-> "date", y |-> y, m |-> m, d |-> d]

\* the values JavaScript treats as false in a condition, in `a || b` and in `!a`
Falsy(v) ==
  \/ v.t \in {"undefined", "null", "NaN"}
  \/ v.t = "number" /\ v.v = 0
  \/ v.t = "string" /\ v.v = <<>>
  \/ v.t = "boolean" /\ ~v.v

Truthy(v) == ~Falsy(v)

\* a || b
Or(a, b) == IF Falsy(a) THEN b ELSE a

\* v != null  (loose: false for null and for undefined)
NotNullish(v) == v.t \notin {"undefined", "null"}

-----------------------------------------------------------------------------
(* Cell *)

InferType(value) ==
  IF value.t = "date" THEN "date"
  ELSE IF value.t \in {"number", "ratio", "NaN", "Infinity", "-Infinity"} THEN "number"
  ELSE IF value.t = "boolean" THEN "boolean"
  ELSE "string"

\* the fields' initialisers: new Cell() with no argument
BlankCell == [value |-> Null, style |-> Undefined, formula |-> Undefined, type |-> "string"]

CellSetValue(cell, value) == [cell EXCEPT !.value = value, !.type = InferType(value)]

CellSetStyle(cell, style) == [cell EXCEPT !.style = style]

CellSetFormula(cell, formula) == [cell EXCEPT !.formula = formula, !.type = "formula"]

\* new Cell(value, style)
NewCell(value, style) ==
  LET c1 == IF value.t # "undefined" THEN CellSetValue(BlankCell, value) ELSE BlankCell
  IN  IF Truthy(style) THEN CellSetStyle(c1, style) ELSE c1

CellToData(cell) ==
  [value |-> cell.value, style |-> cell.style, formula |-> cell.formula, type |-> cell.type]

CellFromData(d) ==
  LET type == IF d.type \in {"string", "number", "boolean", "date", "formula"}
              THEN d.type ELSE "string"
      c == [value |-> d.value, style |-> d.style, formula |-> d.formula, type |-> type]
  IN  IF Truthy(c.value) /\ c.type = "" THEN [c EXCEPT !.type = InferType(c.value)] ELSE c

-----------------------------------------------------------------------------
(* Row *)

NewRow ==
  [cells |-> <<>>, height |-> Undefined, hidden |-> Bool(FALSE),
   outlineLevel |-> Num(0), collapsed |-> Bool(FALSE)]

RowCreateCell(row, value, style) ==
  [row EXCEPT !.cells = Append(@, NewCell(value, style))]

RowSetCell(row, index, value, style) ==
  LET padded == row.cells \o [i \in 1..(index + 1 - Len(row.cells)) |-> BlankCell]
  IN  [row EXCEPT !.cells =
         [padded EXCEPT ![index + 1] = CellSetStyle(CellSetValue(@, value), style)]]

\* the level left as it was
RowSetCollapsed(row, level, collapsed) ==
  [row EXCEPT !.collapsed = collapsed]

RowSetOutlineLevel(row, level, collapsed) ==
  [row EXCEPT !.outlineLevel = level, !.collapsed = collapsed]

RowToData(row) ==
  [cells |-> [i \in 1..Len(row.cells) |-> CellToData(row.cells[i])],
   height |-> row.height, hidden |-> row.hidden,
   outlineLevel |-> row.outlineLevel, collapsed |-> row.collapsed]

RowFromData(d) ==
  [cells |-> [i \in 1..Len(d.cells) |-> CellFromData(d.cells[i])],
   height |-> d.height,
   hidden |-> Or(d.hidden, Bool(FALSE)),
   outlineLevel |-> Or(d.outlineLevel, Num(0)),
   collapsed |-> Or(d.collapsed, Bool(FALSE))]

-----------------------------------------------------------------------------
(* Column *)

NewColumn(width) ==
  [width |-> width, hidden |-> Bool(FALSE), outlineLevel |-> Num(0), collapsed |-> Bool(FALSE)]

ColumnSetOutlineLevel(col, level, collapsed) ==
  [col EXCEPT !.outlineLevel = level, !.collapsed = collapsed]

ColumnToData(col) ==
  [width |-> col.width, hidden |-> col.hidden,
   outlineLevel |-> col.outlineLevel, collapsed |-> col.collapsed]

ColumnFromData(d) ==
  [width |-> d.width,
   hidden |-> Or(d.hidden, Bool(FALSE)),
   outlineLevel |-> Or(d.outlineLevel, Num(0)),
   collapsed |-> Or(d.collapsed, Bool(FALSE))]

-----------------------------------------------------------------------------
(* Worksheet *)

NewWorksheet(name) ==
  [name |-> name, rows |-> <<>>, columns |-> <<>>, mergedCells |-> <<>>,
   freezePane |-> Undefined, printOptions |-> Undefined]

\* createRow() with no index: push
WorksheetCreateRow(ws) == [ws EXCEPT !.rows = Append(@, NewRow)]

WorksheetSetCell(ws, row, col, value, style) ==
  LET padded == ws.rows \o [i \in 1..(row + 1 - Len(ws.rows)) |-> NewRow]
  IN  [ws EXCEPT !.rows = [padded EXCEPT ![row + 1] = RowSetCell(@, col, value, style)]]

WorksheetMergeCells(ws, startRow, startCol, endRow, endCol) ==
  [ws EXCEPT !.mergedCells =
     Append(@, [startRow |-> startRow, startCol |-> startCol,
                endRow |-> endRow, endCol |-> endCol])]

WorksheetSetFreezePane(ws, row, col) ==
  [ws EXCEPT !.freezePane = [rows |-> row, columns |-> col]]

WorksheetSetOutlineLevel(ws, row, level, collapsed) ==
  IF row + 1 \in DOMAIN ws.rows
  THEN [ws EXCEPT !.rows[row + 1] = RowSetOutlineLevel(@, level, collapsed)]
  ELSE ws

WorksheetSetColumnOutlineLevel(ws, col, level, collapsed) ==
  LET padded == ws.columns \o [i \in 1..(col + 1 - Len(ws.columns)) |-> NewColumn(Undefined)]
  IN  [ws EXCEPT !.columns =
         [padded EXCEPT ![col + 1] = ColumnSetOutlineLevel(@, level, collapsed)]]

WorksheetToData(ws) ==
  [name |-> ws.name,
   rows |-> [i \in 1..Len(ws.rows) |-> RowToData(ws.rows[i])],
   columns |-> [i \in 1..Len(ws.columns) |-> ColumnToData(ws.columns[i])],
   mergeCells |-> ws.mergedCells,
   freezePane |-> ws.freezePane,
   printOptions |-> ws.printOptions]

WorksheetFromData(d) ==
  [name |-> d.name,
   rows |-> [i \in 1..Len(d.rows) |-> RowFromData(d.rows[i])],
   columns |-> [i \in 1..Len(d.columns) |-> ColumnFromData(d.columns[i])],
   mergedCells |-> d.mergeCells,
   freezePane |-> d.freezePane,
   printOptions |-> d.printOptions]

-----------------------------------------------------------------------------
(* Workbook *)

WorkbookToData(shs, props) ==
  [sheets |-> [i \in 1..Len(shs) |-> WorksheetToData(shs[i])], properties |-> props]

\* new Workbook(data): the workbook as the pair of its two fields
WorkbookFromData(d) ==
  [sheets |-> [i \in 1..Len(d.sheets) |-> WorksheetFromData(d.sheets[i])],
   properties |-> d.properties]

\* {} and new Map()
EmptyObject == [k \in {} |-> Null]

-----------------------------------------------------------------------------
(* JavaScript strings, numbers and objects, as far as the builders use them *)

Digits == <<"0", "1", "2", "3", "4", "5", "6", "7", "8", "9">>

RECURSIVE NatChars(_)
NatChars(n) ==
  IF n < 10 THEN <<Digits[n + 1]>> ELSE NatChars(n \div 10) \o <<Digits[(n % 10) + 1]>>

RECURSIVE CharsToNat(_)
CharsToNat(cs) ==
  IF cs = <<>> THEN 0
  ELSE 10 * CharsToNat(SubSeq(cs, 1, Len(cs) - 1))
         + (CHOOSE i \in DOMAIN Digits : Digits[i] = cs[Len(cs)]) - 1

\* String(v) and `${v}`
JsString(v) ==
  CASE v.t = "string" -> v.v
    [] v.t = "number" -> IF v.v < 0 THEN <<"-">> \o NatChars(-v.v) ELSE NatChars(v.v)
    [] v.t = "undefined" -> <<"u", "n", "d", "e", "f", "i", "n", "e", "d">>
    [] v.t = "null" -> <<"n", "u", "l", "l">>
    [] v.t = "NaN" -> <<"N", "a", "N">>
    [] v.t = "boolean" -> IF v.v THEN <<"t", "r", "u", "e">> ELSE <<"f", "a", "l", "s", "e">>
    [] v.t = "Infinity" -> <<"I", "n", "f", "i", "n", "i", "t", "y">>
    [] v.t = "-Infinity" -> <<"-", "I", "n", "f", "i", "n", "i", "t", "y">>

\* a string the Number() conversion reads as a number: digits only (or empty)
IsNumericChars(cs) == \A i \in DOMAIN cs : \E d \in DOMAIN Digits : Digits[d] = cs[i]

\* Number(v)
ToNumber(v) ==
  CASE v.t \in {"number", "ratio", "NaN", "Infinity", "-Infinity"} -> v
    [] v.t = "undefined" -> NaN
    [] v.t = "null" -> Num(0)
    [] v.t = "boolean" -> IF v.v THEN Num(1) ELSE Num(0)
    [] v.t = "string" -> IF IsNumericChars(v.v) THEN Num(CharsToNat(v.v)) ELSE NaN
    [] OTHER -> NaN

\* isNaN(v)
IsNaN(v) == ToNumber(v).t = "NaN"

\* a + b on the values the aggregations meet
JsAdd(a, b) ==
  IF a.t = "string" \/ b.t = "string" THEN Str(JsString(a) \o JsString(b))
  ELSE LET x == ToNumber(a)
           y == ToNumber(b)
       IN  CASE x.t = "NaN" \/ y.t = "NaN" -> NaN
             [] x.t = "Infinity" -> IF y.t = "-Infinity" THEN NaN ELSE PosInfinity
             [] x.t = "-Infinity" -> IF y.t = "Infinity" THEN NaN ELSE NegInfinity
             [] y.t \in {"Infinity", "-Infinity"} -> y
             [] OTHER -> Num(x.v + y.v)

RECURSIVE Gcd(_, _)
Gcd(a, b) == IF b = 0 THEN a ELSE Gcd(b, a % b)

Abs(n) == IF n < 0 THEN -n ELSE n

\* the quotient n / d of two integers, d > 0: an integer, or a fraction in lowest terms
Quotient(n, d) ==
  LET g == Gcd(Abs(n), d)
  IN  IF (n % d) = 0 THEN Num(n \div d) ELSE [t |-> "ratio", n |-> n \div g, d |-> d \div g]

\* a / b for a count b >= 0
JsDiv(a, b) ==
  LET x == ToNumber(a)
  IN  CASE x.t \in {"NaN", "Infinity", "-Infinity"} -> x
        [] b = 0 /\ x.v = 0 -> NaN
        [] b = 0 /\ x.v > 0 -> PosInfinity
        [] b = 0 /\ x.v < 0 -> NegInfinity
        [] OTHER -> Quotient(x.v, b)

\* values.reduce((a, b) => a + b, 0)
RECURSIVE SumOf(_)
SumOf(values) ==
  IF values = <<>> THEN Num(0)
  ELSE JsAdd(SumOf(SubSeq(values, 1, Len(values) - 1)), values[Len(values)])

\* Math.min(...values): Infinity for no argument, NaN as soon as one converts to NaN
MathMin(values) ==
  LET ns == [i \in DOMAIN values |-> ToNumber(values[i])]
  IN  IF \E i \in DOMAIN ns : ns[i].t = "NaN" THEN NaN
      ELSE IF ns = <<>> THEN PosInfinity
      ELSE ns[CHOOSE i \in DOMAIN ns : \A j \in DOMAIN ns : ns[i].v <= ns[j].v]

MathMax(values) ==
  LET ns == [i \in DOMAIN values |-> ToNumber(values[i])]
  IN  IF \E i \in DOMAIN ns : ns[i].t = "NaN" THEN NaN
      ELSE IF ns = <<>> THEN NegInfinity
      ELSE ns[CHOOSE i \in DOMAIN ns : \A j \in DOMAIN ns : ns[i].v >= ns[j].v]

\* a data item is an object: a function from its own field names to values.
\* obj[key], undefined for a key the object does not have
Prop(obj, key) == IF key \in DOMAIN obj THEN obj[key] ELSE Undefined

\* getNestedValue(obj, path) for a path of one segment (no '.'): the reduce makes one
\* step, from obj (an object, so truthy) to obj[path] or undefined
GetNestedValue(obj, path) ==
  IF Prop(obj, path).t # "undefined" THEN Prop(obj, path) ELSE Undefined

\* Object.keys(item): the item's own field names, in the order the item
\* literals list them (g, c, v, d; name, age)
ObjectKeys(obj) == LET Own(f) == f \in DOMAIN obj IN SelectSeq(<<"g", "c", "v", "d", "name", "age">>, Own)

(* A Record<string, T[]> built by a reduce: the sequence of its properties in  *)
(* the order they were created, each [key, items].                             *)

\* if (!groups[key]) groups[key] = []; groups[key].push(item)
GroupPush(groups, key, item) ==
  IF \E i \in DOMAIN groups : groups[i].key = key
  THEN [i \in DOMAIN groups |->
          IF groups[i].key = key
          THEN [groups[i] EXCEPT !.items = Append(@, item)]
          ELSE groups[i]]
  ELSE Append(groups, [key |-> key, items |-> <<item>>])

\* a < b for two strings: the comparison of Array.prototype.sort() without a
\* comparator, code unit by code unit, a proper prefix first.  Alphabet lists
\* the characters of the keys in ascending order of their code unit.
RECURSIVE LexLess(_, _)
LexLess(a, b) ==
  LET Alphabet ==
        <<"\n", " ", "\"", "#", ",", "-", ".", "0", "1", "2", "3", "4", "5", "6", "7", "8",
          "9", ":", "=", "Q", "T", "W", "a", "b", "c", "d", "g", "v", "x">>
      CharCode(ch) == CHOOSE i \in DOMAIN Alphabet : Alphabet[i] = ch
  IN  IF b = <<>> THEN FALSE
      ELSE IF a = <<>> THEN TRUE
      ELSE IF a[1] # b[1] THEN CharCode(a[1]) < CharCode(b[1])
      ELSE LexLess(Tail(a), Tail(b))

\* a < b for two canonical decimal numerals
NumeralLess(a, b) == Len(a) < Len(b) \/ (Len(a) = Len(b) /\ LexLess(a, b))

\* a property key that is an array index: the canonical decimal form of an
\* integer in 0 .. 4294967294 (2^32 - 2)
IsArrayIndex(key) ==
  /\ key # <<>>
  /\ IsNumericChars(key)
  /\ Len(key) = 1 \/ key[1] # "0"
  /\ ~NumeralLess(<<"4", "2", "9", "4", "9", "6", "7", "2", "9", "4">>, key)

\* Object.entries / Object.keys / for-in order: the array-index keys in ascending
\* numeric order, then the other string keys in creation order
ObjectEntries(groups) ==
  LET IsIndex(e) == IsArrayIndex(e.key)
      NotIndex(e) == ~IsArrayIndex(e.key)
      Before(a, b) == NumeralLess(a.key, b.key)
  IN  SortSeq(SelectSeq(groups, IsIndex), Before) \o SelectSeq(groups, NotIndex)

-----------------------------------------------------------------------------
(* StyleBuilder: the style under construction is the function from the     *)
(* fields set so far to their values; build() copies it into a new object.  *)

Obj(fields) == [t |-> "object", v |-> fields]
Arr(items) == [t |-> "array", v |-> items]

StyleCreate == [k \in {} |-> Null]

StyleSet(style, field, value) ==
  [k \in DOMAIN style \cup {field} |-> IF k = field THEN value ELSE style[k]]

\* bold(true), the first call of every chain of the builders
StyleBold == StyleSet(StyleCreate, "bold", Bool(TRUE))

StyleBorderAll(style, borderStyle) ==
  LET side == Obj([style |-> Str(borderStyle), color |-> Undefined])
  IN  StyleSet(style, "border", Obj([top |-> side, bottom |-> side, left |-> side, right |-> side]))

StyleBuild(style) == Obj(style)

-----------------------------------------------------------------------------
(* Section: a section configuration is an object, the function from the keys *)
(* its literal sets to their values; `data` is always set.                   *)

GrandTotalTitle == <<"G", "r", "a", "n", "d", " ", "T", "o", "t", "a", "l">>
SubtotalSuffix == <<" ", "S", "u", "b", "t", "o", "t", "a", "l">>
TotalLabel == <<"T", "o", "t", "a", "l">>

\* colors[Math.min(level, colors.length - 1)]: undefined when the index is NaN or negative
SectionGetHeaderColor(level) ==
  LET colors == << <<"#", "e", "6", "f", "2", "f", "f">>,
                   <<"#", "f", "0", "f", "0", "f", "0">>,
                   <<"#", "f", "9", "f", "9", "f", "9">>,
                   <<"#", "f", "f", "f", "f", "f", "f">> >>
      n == ToNumber(level)
  IN  IF n.t = "number" /\ n.v >= 0
      THEN Str(colors[(IF n.v < Len(colors) - 1 THEN n.v ELSE Len(colors) - 1) + 1])
      ELSE IF n.t = "Infinity" THEN Str(colors[Len(colors)])
      ELSE Undefined

SectionHasContent(config) ==
  \/ Len(config.data) > 0
  \/ /\ Truthy(Prop(config, "subSections"))
     /\ Len(Prop(config, "subSections").v) > 0

\* the rule list walked in order: the first rule of this field whose condition
\* holds of the item styles the cell.  A rule is [field, condition, style], its
\* condition the set of items it accepts.
RECURSIVE SectionApplyConditionalStyles(_, _, _, _)
SectionApplyConditionalStyles(cell, item, field, rules) ==
  IF rules = <<>> THEN cell
  ELSE IF Head(rules).field = field /\ item \in Head(rules).condition
       THEN CellSetStyle(cell, Head(rules).style)
       ELSE SectionApplyConditionalStyles(cell, item, field, Tail(rules))

\* the switch with the division of 'average' left unguarded
SummaryRowAggregateUnguarded(values, function) ==
  CASE function = "sum" -> SumOf(values)
    [] function = "average" -> JsDiv(SumOf(values), Len(values))
    [] function = "count" -> Num(Len(values))
    [] function = "min" -> MathMin(values)
    [] function = "max" -> MathMax(values)
    [] OTHER -> Num(0)

\* the switch of addSummaryRow over the values kept by the filter
SummaryRowAggregate(values, function) ==
  CASE function = "sum" -> SumOf(values)
    [] function = "average" ->
         IF Len(values) # 0 THEN JsDiv(SumOf(values), Len(values)) ELSE Num(0)
    [] function = "count" -> Num(Len(values))
    [] function = "min" -> MathMin(values)
    [] function = "max" -> MathMax(values)
    [] OTHER -> Num(0)

\* the summary row addSummaryRow appends (the caller has checked config.summary)
SectionSummaryRow(config) ==
  LET summary == config.summary
      labelCell ==
        CellSetStyle(NewCell(Or(summary.label, Str(TotalLabel)), Undefined),
          StyleBuild(StyleSet(StyleSet(StyleBold, "italic", Bool(TRUE)),
                              "backgroundColor", Str(<<"#", "f", "5", "f", "5", "f", "5">>))))
      fields == Or(Prop(config, "fields"), Arr(<<>>)).v
      includes(field) == \E i \in DOMAIN summary.fields : summary.fields[i] = field
      \* filter(v => v != null && !isNaN(v))
      Kept(v) == NotNullish(v) /\ ~IsNaN(v)
      values(field) ==
        SelectSeq([i \in DOMAIN config.data |-> GetNestedValue(config.data[i], field)], Kept)
      valueCell(field) ==
        IF includes(field)
        THEN CellSetStyle(
               NewCell(SummaryRowAggregate(values(field), summary.function), Undefined),
               StyleBuild(StyleSet(StyleBold, "numberFormat",
                 IF summary.function = "count" THEN Str(<<"#", ",", "#", "#", "0">>)
                 ELSE Str(<<"#", ",", "#", "#", "0", ".", "0", "0">>))))
        ELSE NewCell(Str(<<>>), Undefined)
  IN  [RowSetOutlineLevel(NewRow, JsAdd(Prop(config, "level"), Num(2)), Bool(FALSE))
         EXCEPT !.cells = <<labelCell>> \o [i \in DOMAIN fields |-> valueCell(fields[i])]]

SectionAddSummaryRow(st, config) ==
  IF ~Truthy(Prop(config, "summary")) THEN st
  ELSE [st EXCEPT !.ws.rows = Append(@, SectionSummaryRow(config)),
                  !.kinds = Append(@, "summary")]

\* the title row of build()
SectionHeaderRow(config) ==
  LET level == Prop(config, "level")
      headerStyle ==
        Or(Prop(config, "headerStyle"),
           StyleBuild(StyleBorderAll(
             StyleSet(StyleSet(StyleBold, "fontSize", Num(12)),
                      "backgroundColor", SectionGetHeaderColor(level)), <<"t", "h", "i", "n">>)))
      headerCell == CellSetStyle(NewCell(config.title, Undefined), headerStyle)
      indicatorCell ==
        CellSetStyle(
          \* the one character U+25B6 or U+25BC
          NewCell(IF Truthy(Prop(config, "collapsed")) THEN Str(<<"U+25B6">>)
                  ELSE Str(<<"U+25BC">>), Undefined),
          StyleBuild(StyleSet(StyleBold, "color", Str(<<"#", "6", "6", "6", "6", "6", "6">>))))
  IN  [RowSetOutlineLevel(NewRow, level, Bool(FALSE))
         EXCEPT !.cells = IF SectionHasContent(config)
                          THEN <<headerCell, indicatorCell>> ELSE <<headerCell>>]

\* the row of field labels of build()
SectionLabelRow(config) ==
  LET fields == config.fields.v
      labels == Prop(config, "fieldLabels")
      labelOf(field) ==
        Or(IF NotNullish(labels) THEN Prop(labels.v, field) ELSE Undefined,
           Str(<<field>>))
      cell(field) ==
        CellSetStyle(NewCell(labelOf(field), Undefined),
          StyleBuild(StyleBorderAll(
            StyleSet(StyleBold, "backgroundColor", Str(<<"#", "e", "6", "e", "6", "e", "6">>)),
            <<"t", "h", "i", "n">>)))
  IN  [RowSetOutlineLevel(NewRow, JsAdd(Prop(config, "level"), Num(1)), Bool(FALSE))
         EXCEPT !.cells = [i \in DOMAIN fields |-> cell(fields[i])]]

\* one data row of build()
SectionDataRow(config, item) ==
  LET fields == IF Truthy(Prop(config, "fields")) THEN config.fields.v ELSE ObjectKeys(item)
      rules == Prop(config, "conditionalStyles")
      style == Prop(config, "style")
      cell(field) ==
        LET c0 == NewCell(GetNestedValue(item, field), Undefined)
            c1 == IF Truthy(rules)
                  THEN SectionApplyConditionalStyles(c0, item, field, rules.v) ELSE c0
        IN  IF Truthy(style) THEN CellSetStyle(c1, style) ELSE c1
  IN  [RowSetOutlineLevel(NewRow, JsAdd(Prop(config, "level"), Num(1)), Bool(FALSE))
         EXCEPT !.cells = [i \in DOMAIN fields |-> cell(fields[i])]]

(* build(): st is [ws, kinds, row], the worksheet, the history of row kinds   *)
(* and the section's local currentRow; the result is st after the section and *)
(* its sub-sections, whose row is the value build() returns.                  *)
RECURSIVE SectionBuild(_, _, _)
RECURSIVE SectionBuildSubSections(_, _)

SectionBuild(st, config, startRow) ==
  LET s0 == [st EXCEPT !.row = startRow]
      collapsed == Truthy(Prop(config, "collapsed"))
      s1 == IF Truthy(Prop(config, "title"))
            THEN [s0 EXCEPT !.ws.rows = Append(@, SectionHeaderRow(config)),
                            !.kinds = Append(@, "title"),
                            !.row = @ + 1]
            ELSE s0
      hasFields == Truthy(Prop(config, "fields")) /\ Len(config.fields.v) > 0
      s2 == IF hasFields
            THEN [s1 EXCEPT !.ws.rows = Append(@, SectionLabelRow(config)),
                            !.kinds = Append(@, "labels"),
                            !.row = @ + 1]
            ELSE s1
      s3 == [s2 EXCEPT
               !.ws.rows = @ \o [i \in DOMAIN config.data |-> SectionDataRow(config, config.data[i])],
               !.kinds = @ \o [i \in DOMAIN config.data |-> "data"],
               !.row = @ + Len(config.data)]
      s4 == IF Truthy(Prop(config, "summary"))
            THEN [SectionAddSummaryRow(s3, config) EXCEPT !.row = @ + 1]
            ELSE s3
      s5 == IF ~collapsed /\ Len(config.data) > 0 THEN s4 ELSE s1
  IN  IF Truthy(Prop(config, "subSections")) /\ ~collapsed
      THEN SectionBuildSubSections(s5, config.subSections.v)
      ELSE s5

\* subSections.forEach: each sub-section starts at the row the one before returned
SectionBuildSubSections(st, subs) ==
  IF subs = <<>> THEN st
  ELSE SectionBuildSubSections(SectionBuild(st, Head(subs), st.row), Tail(subs))

-----------------------------------------------------------------------------
(* SectionBuilder.  A builder state b is [ws, kinds, row, sections]: the     *)
(* worksheet, the history of row kinds, currentRow and the sections map.     *)

BuilderAddSection(b, config) ==
  LET title == Prop(config, "title")
      registered ==
        IF title.t # "undefined"
        THEN [b EXCEPT !.sections =
                [k \in DOMAIN b.sections \cup {title.v} |->
                   IF k = title.v THEN config ELSE b.sections[k]]]
        ELSE b
  IN  SectionBuild(registered, config, b.row)

\* groupData with a field name as groupBy: one property per String(item[groupBy])
RECURSIVE GroupData(_, _)
GroupData(items, groupBy) ==
  IF items = <<>> THEN <<>>
  ELSE LET item == items[Len(items)]
       IN  GroupPush(GroupData(SubSeq(items, 1, Len(items) - 1), groupBy),
                     JsString(Prop(item, groupBy)), item)

\* the summary of a section made by createFromData
CreateFromDataSummary(summary, label) ==
  IF Truthy(summary)
  THEN [t |-> "object",
        fields |-> summary.fields,
        function |-> IF summary.functions # <<>> THEN summary.functions[1] ELSE "count",
        label |-> Str(label)]
  ELSE Undefined

\* the section configuration createFromData hands to addSection; options is the
\* object of the options given, an absent option taking its default
CreateFromDataConfig(items, options) ==
  LET title == Prop(options, "title")
      groupBy == Prop(options, "groupBy")
      fields ==
        IF Prop(options, "fields").t # "undefined" THEN options.fields
        ELSE Arr(IF items # <<>> THEN ObjectKeys(items[1]) ELSE <<>>)
      fieldLabels ==
        IF Prop(options, "fieldLabels").t # "undefined" THEN options.fieldLabels
        ELSE Obj([k \in {} |-> Null])
      level == IF Prop(options, "level").t # "undefined" THEN options.level ELSE Num(0)
      collapsed ==
        IF Prop(options, "collapsed").t # "undefined" THEN options.collapsed ELSE Bool(FALSE)
      summary == Prop(options, "summary")
      groups == ObjectEntries(GroupData(items, groupBy.v[1]))
      subSection(e) ==
        [title |-> Str(JsString(groupBy) \o <<":", " ">> \o e.key),
         level |-> JsAdd(level, Num(1)),
         collapsed |-> Bool(TRUE),
         data |-> e.items,
         fields |-> fields,
         fieldLabels |-> fieldLabels,
         summary |-> CreateFromDataSummary(summary,
                       <<"T", "o", "t", "a", "l", " ", "f", "o", "r", " ">> \o e.key)]
  IN  IF ~Truthy(groupBy)
      THEN [title |-> title, level |-> level, collapsed |-> collapsed, data |-> items,
            fields |-> fields, fieldLabels |-> fieldLabels,
            summary |-> CreateFromDataSummary(summary, TotalLabel)]
      ELSE [title |-> title, level |-> level, collapsed |-> collapsed, data |-> <<>>,
            subSections |-> Arr([i \in DOMAIN groups |-> subSection(groups[i])])]

BuilderCreateFromData(b, items, options) ==
  BuilderAddSection(b, CreateFromDataConfig(items, options))

(* addSummarySection *)

\* the switch of addSummarySection over the values kept by the filter; no case
\* matches an undefined function, and summary[field] stays undefined
SummarySectionAggregate(values, func) ==
  CASE func = "sum" -> SumOf(values)
    [] func = "average" -> JsDiv(SumOf(values), Len(values))
    [] func = "count" -> Num(Len(values))
    [] func = "min" -> MathMin(values)
    [] func = "max" -> MathMax(values)
    [] OTHER -> Undefined

\* summary[field] after the loop over the fields: the entry of the last index
\* that names the field.  functions[index] || functions[0]
SummarySectionValue(items, fields, functions, field) ==
  LET index == CHOOSE i \in DOMAIN fields :
                 fields[i] = field /\ \A j \in DOMAIN fields : fields[j] = field => j <= i
      func == IF index \in DOMAIN functions THEN functions[index]
              ELSE IF functions # <<>> THEN functions[1] ELSE "undefined"
      \* filter(v => v != null)
      values == SelectSeq([i \in DOMAIN items |-> GetNestedValue(items[i], field)], NotNullish)
  IN  SummarySectionAggregate(values, func)

\* the row is appended to the worksheet; currentRow is not assigned.
\* (The `_percentage` entries showPercentage adds to the local summary object
\* are never read.)
BuilderAddSummarySection(b, items, fields, functions, options) ==
  LET level == IF Prop(options, "level").t # "undefined" THEN options.level ELSE Num(0)
      style == Prop(options, "style")
      label == IF Prop(options, "label").t # "undefined" THEN options.label
               ELSE Str(<<"S", "u", "m", "m", "a", "r", "y">>)
      labelCell ==
        CellSetStyle(NewCell(Str(JsString(label) \o <<":">>), Undefined),
          StyleBuild(StyleSet(StyleSet(StyleBold, "italic", Bool(TRUE)),
                              "backgroundColor", Str(<<"#", "f", "0", "f", "0", "f", "0">>))))
      valueCell(field) ==
        CellSetStyle(NewCell(SummarySectionValue(items, fields, functions, field), Undefined),
          IF Truthy(style) THEN style
          ELSE StyleBuild(StyleSet(StyleBold, "numberFormat",
                 IF functions # <<>> /\ functions[1] = "count"
                 THEN Str(<<"#", ",", "#", "#", "0">>)
                 ELSE Str(<<"#", ",", "#", "#", "0", ".", "0", "0">>))))
      summaryRow ==
        [RowSetOutlineLevel(NewRow, JsAdd(level, Num(1)), Bool(FALSE))
           EXCEPT !.cells = <<labelCell>> \o [i \in DOMAIN fields |-> valueCell(fields[i])]]
  IN  [b EXCEPT !.ws.rows = Append(@, summaryRow), !.kinds = Append(@, "summarySection")]

(* addPivotSection *)

\* the separator of groupMultiLevel is space, U+203A, space
\* Array.prototype.join: null and undefined elements become the empty string
RECURSIVE JsJoin(_, _)
JsJoin(values, separator) ==
  LET text(v) == IF NotNullish(v) THEN JsString(v) ELSE <<>>
  IN  IF values = <<>> THEN <<>>
      ELSE IF Len(values) = 1 THEN text(values[1])
      ELSE JsJoin(SubSeq(values, 1, Len(values) - 1), separator)
             \o separator \o text(values[Len(values)])

RECURSIVE GroupMultiLevel(_, _)
GroupMultiLevel(items, dimensions) ==
  IF items = <<>> THEN <<>>
  ELSE LET item == items[Len(items)]
           key == JsJoin([i \in DOMAIN dimensions |-> GetNestedValue(item, dimensions[i])],
                         <<" ", "U+203A", " ">>)
       IN  GroupPush(GroupMultiLevel(SubSeq(items, 1, Len(items) - 1), dimensions), key, item)

\* the switch of addPivotSection for one entry of dimensions.values over the
\* items of a cell, of a row group or of the whole list (the code repeats it
\* for the three)
PivotAggregate(items, field, aggregate) ==
  LET NotNaN(n) == ~IsNaN(n)
      nums == SelectSeq([i \in DOMAIN items |-> Prop(items[i], field)], NotNaN)
  IN  CASE aggregate = "sum" -> SumOf(nums)
        [] aggregate = "average" ->
             IF Len(nums) # 0 THEN JsDiv(SumOf(nums), Len(nums)) ELSE Num(0)
        [] aggregate = "count" -> Num(Len(items))
        [] aggregate = "min" -> MathMin(nums)
        [] aggregate = "max" -> MathMax(nums)

\* the object the forEach over dimensions.values fills: one property per field,
\* holding the aggregate of the last entry that names the field
PivotValues(items, values) ==
  LET last(field) == CHOOSE i \in DOMAIN values :
                       values[i].field = field
                       /\ \A j \in DOMAIN values : values[j].field = field => j <= i
  IN  [field \in {values[i].field : i \in DOMAIN values} |->
         PivotAggregate(items, field, values[last(field)].aggregate)]

PivotFields(values) == Arr([i \in DOMAIN values |-> values[i].field])

\* the configuration of one row group
PivotRowSection(rowKey, rowItems, dimensions, level, showSubTotals) ==
  LET colGroups == ObjectEntries(GroupMultiLevel(rowItems, dimensions.columns))
      cell(e) ==
        [title |-> Str(e.key), level |-> JsAdd(level, Num(2)),
         data |-> <<PivotValues(e.items, dimensions.values)>>,
         fields |-> PivotFields(dimensions.values)]
      subtotal ==
        [title |-> Str(rowKey \o SubtotalSuffix), level |-> JsAdd(level, Num(2)),
         data |-> <<PivotValues(rowItems, dimensions.values)>>,
         fields |-> PivotFields(dimensions.values)]
      subs ==
        IF Len(dimensions.columns) > 0
        THEN [i \in DOMAIN colGroups |-> cell(colGroups[i])]
               \o (IF showSubTotals THEN <<subtotal>> ELSE <<>>)
        ELSE <<>>
  IN  [title |-> Str(rowKey), level |-> JsAdd(level, Num(1)), collapsed |-> Bool(TRUE),
       data |-> <<>>, subSections |-> Arr(subs)]

PivotGrandTotalSection(items, dimensions, level) ==
  [title |-> Str(GrandTotalTitle), level |-> level,
   data |-> <<PivotValues(items, dimensions.values)>>,
   fields |-> PivotFields(dimensions.values)]

RECURSIVE BuilderAddSections(_, _)
BuilderAddSections(b, configs) ==
  IF configs = <<>> THEN b
  ELSE BuilderAddSections(BuilderAddSection(b, Head(configs)), Tail(configs))

\* the configurations addPivotSection hands to addSection, in order
PivotSections(items, dimensions, options) ==
  LET level == IF Prop(options, "level").t # "undefined" THEN options.level ELSE Num(0)
      showGrandTotals ==
        IF Prop(options, "showGrandTotals").t # "undefined"
        THEN Truthy(options.showGrandTotals) ELSE TRUE
      showSubTotals ==
        IF Prop(options, "showSubTotals").t # "undefined"
        THEN Truthy(options.showSubTotals) ELSE TRUE
      rowGroups == ObjectEntries(GroupMultiLevel(items, dimensions.rows))
  IN  [i \in DOMAIN rowGroups |->
         PivotRowSection(rowGroups[i].key, rowGroups[i].items, dimensions, level, showSubTotals)]
      \o (IF showGrandTotals THEN <<PivotGrandTotalSection(items, dimensions, level)>> ELSE <<>>)

BuilderAddPivotSection(b, items, dimensions, options) ==
  BuilderAddSections(b, PivotSections(items, dimensions, options))

(* addTimelineSection.  A date is [y, m, d], a calendar day; the local time *)
(* zone is taken to be UTC, so that getFullYear, getMonth and getDate read   *)
(* the same day as toISOString.                                              *)

IsLeapYear(y) == (y % 4 = 0 /\ y % 100 # 0) \/ y % 400 = 0

\* the days of year y before its month m
RECURSIVE DaysBeforeMonth(_, _)
DaysBeforeMonth(y, m) ==
  LET DaysInMonth(k) ==
        IF k = 2 THEN (IF IsLeapYear(y) THEN 29 ELSE 28)
        ELSE IF k \in {4, 6, 9, 11} THEN 30 ELSE 31
  IN  IF m = 1 THEN 0 ELSE DaysBeforeMonth(y, m - 1) + DaysInMonth(m - 1)

\* Date.UTC(y, m - 1, d) / 86400000: the days since 1970-01-01
DateUTC(y, m, d) ==
  LET LeapYearsBefore(k) == ((k - 1) \div 4) - ((k - 1) \div 100) + ((k - 1) \div 400)
  IN  365 * (y - 1970) + (LeapYearsBefore(y) - LeapYearsBefore(1970))
        + DaysBeforeMonth(y, m) + (d - 1)

\* getUTCDay of day number n, 0 for Sunday; 1970-01-01 was a Thursday
GetUTCDay(n) == (n + 4) % 7

GetWeekNumber(date) ==
  LET d0 == DateUTC(date.y, date.m, date.d)
      dayNum == IF GetUTCDay(d0) = 0 THEN 7 ELSE GetUTCDay(d0)
      d1 == d0 + 4 - dayNum
      \* d.getUTCFullYear(): the year of day d1, one of y - 1, y, y + 1
      fullYear == IF d1 < DateUTC(date.y, 1, 1) THEN date.y - 1
                  ELSE IF d1 >= DateUTC(date.y + 1, 1, 1) THEN date.y + 1 ELSE date.y
      yearStart == DateUTC(fullYear, 1, 1)
  IN  ((d1 - yearStart) + 1 + 6) \div 7

\* String(n).padStart(2, '0')
PadStart2(cs) == IF Len(cs) < 2 THEN <<"0">> \o cs ELSE cs

\* date.toISOString().split('T')[0], for a year of four digits
IsoDate(date) ==
  NatChars(date.y) \o <<"-">> \o PadStart2(NatChars(date.m))
    \o <<"-">> \o PadStart2(NatChars(date.d))

\* the key the switch of groupByDate computes; format is a string or undefined
PeriodKey(date, period, format) ==
  IF Truthy(format) THEN format.v
  ELSE CASE period = "day" -> IsoDate(date)
         [] period = "week" -> NatChars(date.y) \o <<"-", "W">> \o NatChars(GetWeekNumber(date))
         [] period = "month" -> NatChars(date.y) \o <<"-">> \o PadStart2(NatChars(date.m))
         [] period = "quarter" ->
              NatChars(date.y) \o <<"-", "Q">> \o NatChars(((date.m - 1) \div 3) + 1)
         [] period = "year" -> NatChars(date.y)

RECURSIVE GroupByDate(_, _, _, _)
GroupByDate(items, dateField, period, format) ==
  IF items = <<>> THEN <<>>
  ELSE LET item == items[Len(items)]
           key == PeriodKey(GetNestedValue(item, dateField), period, format)
       IN  GroupPush(GroupByDate(SubSeq(items, 1, Len(items) - 1), dateField, period, format),
                     key, item)

\* the items of the key before currentKey in Object.keys(groups).sort(), or null
GetPreviousPeriod(currentKey, groups) ==
  LET entries == ObjectEntries(groups)
      keys == SortSeq([i \in DOMAIN entries |-> entries[i].key], LexLess)
      currentIndex == CHOOSE i \in DOMAIN keys : keys[i] = currentKey
      previous == CHOOSE i \in DOMAIN groups : groups[i].key = keys[currentIndex - 1]
  IN  IF currentIndex > 1 THEN Arr(groups[previous].items) ELSE Null

\* reduce((sum, item) => sum + (item[field] || 0), 0)
RECURSIVE TrendSum(_, _)
TrendSum(items, field) ==
  IF items = <<>> THEN Num(0)
  ELSE JsAdd(TrendSum(SubSeq(items, 1, Len(items) - 1), field),
             Or(Prop(items[Len(items)], field), Num(0)))

\* calculateTrend over numeric sums: the percentage as an integer or a fraction
CalculateTrend(current, previous, field) ==
  LET currentSum == TrendSum(current, field)
      previousSum == TrendSum(previous, field)
  IN  IF previousSum = Num(0) THEN Num(0)
      ELSE IF previousSum.v > 0
           THEN Quotient((currentSum.v - previousSum.v) * 100, previousSum.v)
           ELSE Quotient((previousSum.v - currentSum.v) * 100, -previousSum.v)

\* `Trend: ${trend > 0 ? up : down} ${Math.abs(trend).toFixed(1)}%`, the arrows
\* being U+2191 and U+2193; toFixed(1) of an integer or a fraction is the
\* nearest tenth, the larger one of two equally near
TrendLabel(trend) ==
  LET positive == IF trend.t = "ratio" THEN trend.n > 0 ELSE trend.v > 0
      n == IF trend.t = "ratio" THEN Abs(trend.n) ELSE Abs(trend.v)
      d == IF trend.t = "ratio" THEN trend.d ELSE 1
      tenths == (20 * n + d) \div (2 * d)
  IN  Str(<<"T", "r", "e", "n", "d", ":", " ">>
            \o (IF positive THEN <<"U+2191">> ELSE <<"U+2193">>) \o <<" ">>
            \o NatChars(tenths \div 10) \o <<".">> \o NatChars(tenths % 10) \o <<"%">>)

\* fields?.[0] || 'value'
TrendField(fields) ==
  IF Truthy(fields) /\ Len(fields.v) > 0 THEN fields.v[1] ELSE "value"

\* the configuration of the section of one period
TimelineSection(e, grouped, fields, level, showTrends) ==
  LET section == [title |-> Str(e.key), level |-> JsAdd(level, Num(1)),
                  collapsed |-> Bool(TRUE), data |-> e.items, fields |-> fields]
      prevPeriod == GetPreviousPeriod(e.key, grouped)
      summary == [t |-> "object", fields |-> <<TrendField(fields)>>, function |-> "sum",
                  label |-> TrendLabel(CalculateTrend(e.items, prevPeriod.v, TrendField(fields)))]
  IN  IF showTrends /\ Len(e.items) > 0 /\ Truthy(prevPeriod)
      THEN [k \in DOMAIN section \cup {"summary"} |->
              IF k = "summary" THEN summary ELSE section[k]]
      ELSE section

\* the configurations addTimelineSection hands to addSection, in order
TimelineSections(items, dateField, period, options) ==
  LET fields == Prop(options, "fields")
      level == IF Prop(options, "level").t # "undefined" THEN options.level ELSE Num(0)
      showTrends ==
        IF Prop(options, "showTrends").t # "undefined" THEN Truthy(options.showTrends) ELSE TRUE
      grouped == GroupByDate(items, dateField, period, Prop(options, "format"))
      entries == ObjectEntries(grouped)
  IN  [i \in DOMAIN entries |-> TimelineSection(entries[i], grouped, fields, level, showTrends)]

BuilderAddTimelineSection(b, items, dateField, period, options) ==
  BuilderAddSections(b, TimelineSections(items, dateField, period, options))

-----------------------------------------------------------------------------
(* The mutators of the document model, as actions on the workbook *)

CreateSheet ==
  /\ call.n < MaxOps
  /\ Len(sheets) < MaxSheets
  /\ \E name \in {<<"A">>, <<>>} : sheets' = Append(sheets, NewWorksheet(name))
  /\ call' = [op |-> "createSheet", n |-> call.n + 1]
  /\ UNCHANGED <<properties, data, currentRow, sections, rowKinds, csv,
               exported, builderStyle, heap, built>>

SetCell ==
  /\ call.n < MaxOps
  /\ \E s \in DOMAIN sheets, row \in 0..MaxIndex, col \in 0..MaxIndex,
        value \in {Num(1), Str(<<"a">>)} :
       /\ sheets' = [sheets EXCEPT ![s] = WorksheetSetCell(@, row, col, value, Undefined)]
       /\ call' = [op |-> "setCell", n |-> call.n + 1, sheet |-> s, index |-> row]
  /\ UNCHANGED <<properties, data, currentRow, sections, rowKinds, csv,
               exported, builderStyle, heap, built>>

SetFormula ==
  /\ call.n < MaxOps
  /\ \E s \in DOMAIN sheets :
       \E r \in DOMAIN sheets[s].rows :
         \E c \in DOMAIN sheets[s].rows[r].cells :
           sheets' = [sheets EXCEPT ![s].rows[r].cells[c] =
                        CellSetFormula(@, <<"=", "1">>)]
  /\ call' = [op |-> "setFormula", n |-> call.n + 1]
  /\ UNCHANGED <<properties, data, currentRow, sections, rowKinds, csv,
               exported, builderStyle, heap, built>>

SetOutlineLevel ==
  /\ call.n < MaxOps
  /\ \E s \in DOMAIN sheets, row \in 0..MaxIndex,
        level \in {Num(1), Num(8), NaN, Undefined}, collapsed \in BOOLEAN :
       /\ sheets' = [sheets EXCEPT ![s] =
                       WorksheetSetOutlineLevel(@, row, level, Bool(collapsed))]
       /\ call' = [op |-> "setOutlineLevel", n |-> call.n + 1,
                   sheet |-> s, index |-> row]
  /\ UNCHANGED <<properties, data, currentRow, sections, rowKinds, csv,
               exported, builderStyle, heap, built>>

SetColumnOutlineLevel ==
  /\ call.n < MaxOps
  /\ \E s \in DOMAIN sheets, col \in 0..MaxIndex, level \in {Num(1), NaN, Undefined} :
       /\ sheets' = [sheets EXCEPT ![s] =
                       WorksheetSetColumnOutlineLevel(@, col, level, Bool(FALSE))]
       /\ call' = [op |-> "setColumnOutlineLevel", n |-> call.n + 1,
                   sheet |-> s, index |-> col]
  /\ UNCHANGED <<properties, data, currentRow, sections, rowKinds, csv,
               exported, builderStyle, heap, built>>

MergeCells ==
  /\ call.n < MaxOps
  /\ \E s \in DOMAIN sheets, startRow \in 0..MaxIndex, endRow \in 0..MaxIndex :
       sheets' = [sheets EXCEPT ![s] = WorksheetMergeCells(@, startRow, 0, endRow, 1)]
  /\ call' = [op |-> "mergeCells", n |-> call.n + 1]
  /\ UNCHANGED <<properties, data, currentRow, sections, rowKinds, csv,
               exported, builderStyle, heap, built>>

SetFreezePane ==
  /\ call.n < MaxOps
  /\ \E s \in DOMAIN sheets, row \in {Undefined, Num(1)} :
       sheets' = [sheets EXCEPT ![s] = WorksheetSetFreezePane(@, row, Num(0))]
  /\ call' = [op |-> "setFreezePane", n |-> call.n + 1]
  /\ UNCHANGED <<properties, data, currentRow, sections, rowKinds, csv,
               exported, builderStyle, heap, built>>

SetProperty ==
  /\ call.n < MaxOps
  /\ \E key \in {"author"}, value \in {Str(<<"a">>), Undefined} :
       properties' = [k \in DOMAIN properties \cup {key} |->
                        IF k = key THEN value ELSE properties[k]]
  /\ call' = [op |-> "setProperty", n |-> call.n + 1]
  /\ UNCHANGED <<sheets, data, currentRow, sections, rowKinds, csv,
               exported, builderStyle, heap, built>>

Init ==
  /\ sheets = <<>>
  /\ properties = EmptyObject
  /\ data = <<>>
  /\ currentRow = 0
  /\ sections = EmptyObject
  /\ rowKinds = <<>>
  /\ call = [op |-> "new", n |-> 0]
  /\ csv = <<>>
  /\ exported = Undefined
  /\ builderStyle = EmptyObject
  /\ heap = <<>>
  /\ built = <<>>

Next ==
  \/ CreateSheet
  \/ SetCell
  \/ SetFormula
  \/ SetOutlineLevel
  \/ SetColumnOutlineLevel
  \/ MergeCells
  \/ SetFreezePane
  \/ SetProperty

Spec == Init /\ [][Next]_vars

-----------------------------------------------------------------------------
(* The cells of one worksheet under setCell (Cell.setValue), setFormula and   *)
(* setType                                                                    *)

\* cell.setType(type) on a cell of the sheet
SetType ==
  /\ call.n < MaxOps
  /\ \E s \in DOMAIN sheets :
       \E r \in DOMAIN sheets[s].rows :
         \E c \in DOMAIN sheets[s].rows[r].cells :
           \E type \in {"string", "number", "date", "boolean", "formula"} :
             sheets' = [sheets EXCEPT ![s].rows[r].cells[c].type = type]
  /\ call' = [op |-> "setType", n |-> call.n + 1]
  /\ UNCHANGED <<properties, data, currentRow, sections, rowKinds, csv,
                 exported, builderStyle, heap, built>>

NextCell ==
  \/ SetCell
  \/ SetFormula
  \/ SetType

\* from the workbook of one new sheet
SpecCell ==
  /\ sheets = <<NewWorksheet(<<"A">>)>>
  /\ properties = EmptyObject
  /\ data = <<>>
  /\ currentRow = 0
  /\ sections = EmptyObject
  /\ rowKinds = <<>>
  /\ call = [op |-> "new", n |-> 0]
  /\ csv = <<>>
  /\ exported = Undefined
  /\ builderStyle = EmptyObject
  /\ heap = <<>>
  /\ built = <<>>
  /\ [][NextCell]_vars

-----------------------------------------------------------------------------
(* The SectionBuilder over a new worksheet, the first of the workbook *)

\* the sequences over S of length at most n
SeqsUpTo(S, n) == UNION {[1..k -> S] : k \in 0..n}

Builder == [ws |-> sheets[1], kinds |-> rowKinds, row |-> currentRow, sections |-> sections]

\* the builder state b written back to the variables
BuilderBecomes(b) ==
  /\ sheets' = [sheets EXCEPT ![1] = b.ws]
  /\ rowKinds' = b.kinds
  /\ currentRow' = b.row
  /\ sections' = b.sections

\* new SectionBuilder(worksheet), to be called with up to MaxRecords of Items
InitBuilder(Items) ==
  /\ sheets = <<NewWorksheet(<<"S">>)>>
  /\ properties = EmptyObject
  /\ data \in SeqsUpTo(Items, MaxRecords)
  /\ currentRow = 0
  /\ sections = EmptyObject
  /\ rowKinds = <<>>
  /\ call = [op |-> "new", n |-> 0]
  /\ csv = <<>>
  /\ exported = Undefined
  /\ builderStyle = EmptyObject
  /\ heap = <<>>
  /\ built = <<>>

\* the object of the options that are given (not undefined)
Given(options) == [k \in {k \in DOMAIN options : options[k].t # "undefined"} |-> options[k]]

(* createFromData, up to MaxCalls times on the same builder *)

CreateFromData ==
  /\ call.n < MaxCalls
  /\ \E groupBy \in {Undefined, Str(<<"g">>)}, fields \in {Undefined, Arr(<<"v">>)},
        collapsed \in {Undefined, Bool(TRUE)},
        summary \in {Undefined, [fields |-> <<"v">>, functions |-> <<"sum">>,
                                 t |-> "object"]} :
       LET options == Given([title |-> Str(<<"T">>), groupBy |-> groupBy,
                             fields |-> fields, collapsed |-> collapsed,
                             summary |-> summary])
       IN  /\ BuilderBecomes(BuilderCreateFromData(Builder, data, options))
           /\ call' = [op |-> "createFromData", n |-> call.n + 1, options |-> options,
                       config |-> CreateFromDataConfig(data, options),
                       before |-> currentRow]
  /\ UNCHANGED <<properties, data, csv,
               exported, builderStyle, heap, built>>

SpecGroup ==
  /\ InitBuilder([g : {Str(<<"a">>), Num(2), Num(1)}, v : {Num(1), Num(2)}])
  /\ [][CreateFromData]_vars

-----------------------------------------------------------------------------
(* addPivotSection on the new builder *)

FirstCall == call.n = 0

AddPivotSectionWith(Dimensions, Options) ==
  \E dimensions \in Dimensions, options \in Options :
    /\ BuilderBecomes(BuilderAddPivotSection(Builder, data, dimensions, options))
    /\ call' = [op |-> "addPivotSection", n |-> call.n + 1, dimensions |-> dimensions,
                options |-> options, configs |-> PivotSections(data, dimensions, options),
                before |-> currentRow]
    /\ UNCHANGED <<properties, data, csv,
               exported, builderStyle, heap, built>>

AddPivotSection ==
  /\ FirstCall
  /\ AddPivotSectionWith(
       [rows : {<<>>, <<"g">>},
        columns : {<<>>, <<"c">>},
        values : {<<[field |-> "v", aggregate |-> "sum"]>>,
                  <<[field |-> "v", aggregate |-> "average"],
                    [field |-> "c", aggregate |-> "max"]>>,
                  <<[field |-> "v", aggregate |-> "sum"],
                    [field |-> "v", aggregate |-> "count"]>>}],
       {Given([showGrandTotals |-> showGrandTotals, showSubTotals |-> showSubTotals]) :
          showGrandTotals \in {Undefined, Bool(FALSE)},
          showSubTotals \in {Undefined, Bool(FALSE)}})

SpecPivot ==
  /\ InitBuilder([g : {Str(<<"a">>), Str(<<"b">>)}, c : {Str(<<"a">>), Str(<<"b">>)},
                  v : {Num(1), Num(2), Null}])
  /\ [][AddPivotSection]_vars

-----------------------------------------------------------------------------
(* addTimelineSection on the new builder *)

AddTimelineSection ==
  /\ FirstCall
  /\ \E period \in {"day", "week", "month", "quarter", "year"},
        fields \in {Undefined, Arr(<<"v">>)}, showTrends \in {Undefined, Bool(FALSE)},
        format \in {Undefined, Str(<<"x">>)} :
       LET options == Given([fields |-> fields, showTrends |-> showTrends,
                             format |-> format])
       IN  /\ BuilderBecomes(BuilderAddTimelineSection(Builder, data, "d", period, options))
           /\ call' = [op |-> "addTimelineSection", n |-> call.n + 1, period |-> period,
                       options |-> options,
                       configs |-> TimelineSections(data, "d", period, options),
                       before |-> currentRow]
  /\ UNCHANGED <<properties, data, csv,
               exported, builderStyle, heap, built>>

SpecTimeline ==
  /\ InitBuilder([d : {DateOf(2024, 1, 1), DateOf(2024, 1, 8), DateOf(2024, 2, 5),
                       DateOf(2023, 12, 25), DateOf(2024, 12, 30)},
                  v : {Num(1), Num(2)}])
  /\ [][AddTimelineSection]_vars

-----------------------------------------------------------------------------
(* The three aggregation routines over the same records: the summary row of *)
(* a section, addSummarySection, and the totals of addPivotSection           *)

Functions == {"sum", "average", "count", "min", "max"}

\* createFromData of one section whose summary aggregates v
CreateSummarised ==
  /\ FirstCall
  /\ \E function \in Functions :
       LET options == [title |-> Str(<<"T">>), fields |-> Arr(<<"v">>),
                       summary |-> [fields |-> <<"v">>, functions |-> <<function>>,
                                    t |-> "object"]]
       IN  /\ BuilderBecomes(BuilderCreateFromData(Builder, data, options))
           /\ call' = [op |-> "createFromData", n |-> call.n + 1, options |-> options,
                       function |-> function,
                       config |-> CreateFromDataConfig(data, options), before |-> currentRow]
  /\ UNCHANGED <<properties, data, csv,
               exported, builderStyle, heap, built>>

AddSummarySection ==
  /\ FirstCall
  /\ \E function \in Functions, level \in {Undefined, Num(1)} :
       LET options == Given([level |-> level])
       IN  /\ BuilderBecomes(
                BuilderAddSummarySection(Builder, data, <<"v">>, <<function>>, options))
           /\ call' = [op |-> "addSummarySection", n |-> call.n + 1, options |-> options,
                       function |-> function, before |-> currentRow]
  /\ UNCHANGED <<properties, data, csv,
               exported, builderStyle, heap, built>>

\* addPivotSection without row dimensions: one row group and the Grand Total
AddPivotTotals ==
  /\ FirstCall
  /\ AddPivotSectionWith(
       [rows : {<<>>}, columns : {<<>>, <<"g">>},
        values : {<<[field |-> "v", aggregate |-> function]>> : function \in Functions}],
       {Given([showSubTotals |-> Undefined])})

NextAggregate ==
  \/ CreateSummarised
  \/ AddSummarySection
  \/ AddPivotTotals

SpecAggregate ==
  /\ InitBuilder({[v |-> x] : x \in {Num(1), Num(3), Null, Str(<<"x">>)}}
                   \cup {[g |-> Str(<<"a">>)]})
  /\ [][NextAggregate]_vars

-----------------------------------------------------------------------------
(* addSection and addSections on the builder, with configurations written    *)
(* out by the caller                                                          *)

\* a configuration over the records: its own rows, and with nested two
\* sub-sections one level down, the second one without a title
SectionConfig(level, title, collapsed, fields, summary, nested) ==
  LET sub(subTitle, subCollapsed) ==
        [title |-> subTitle, level |-> JsAdd(level, Num(1)), collapsed |-> subCollapsed,
         data |-> data, fields |-> fields, summary |-> summary]
  IN  [title |-> title, level |-> level, collapsed |-> collapsed, data |-> data,
       fields |-> fields, summary |-> summary,
       subSections |-> IF nested
                       THEN Arr(<<sub(Str(<<"U">>), Bool(FALSE)), sub(Undefined, collapsed)>>)
                       ELSE Undefined]

SummaryOfV == [t |-> "object", fields |-> <<"v">>, function |-> "sum", label |-> Undefined]

AddSection ==
  /\ FirstCall
  /\ \E level \in {Num(0), Num(1)}, title \in {Undefined, Str(<<"T">>)},
        collapsed \in {Bool(FALSE), Bool(TRUE)}, fields \in {Undefined, Arr(<<"g", "v">>)},
        summary \in {Undefined, SummaryOfV}, nested \in BOOLEAN :
       LET config == SectionConfig(level, title, collapsed, fields, summary, nested)
       IN  /\ BuilderBecomes(BuilderAddSection(Builder, config))
           /\ call' = [op |-> "addSection", n |-> call.n + 1, configs |-> <<config>>,
                       before |-> currentRow, rows |-> Len(sheets[1].rows)]
  /\ UNCHANGED <<properties, data, csv,
                 exported, builderStyle, heap, built>>

AddSections ==
  /\ call.n < MaxCalls
  /\ \E collapsed \in {Bool(FALSE), Bool(TRUE)} :
       LET configs ==
             <<SectionConfig(Num(0), Str(<<"T">>), collapsed, Arr(<<"g", "v">>),
                             Undefined, FALSE),
               SectionConfig(Num(1), Undefined, Bool(FALSE), Arr(<<"v">>),
                             SummaryOfV, FALSE)>>
       IN  /\ BuilderBecomes(BuilderAddSections(Builder, configs))
           /\ call' = [op |-> "addSections", n |-> call.n + 1, configs |-> configs,
                       before |-> currentRow, rows |-> Len(sheets[1].rows)]
  /\ UNCHANGED <<properties, data, csv,
                 exported, builderStyle, heap, built>>

NextSection ==
  \/ AddSection
  \/ AddSections

SpecSection ==
  /\ InitBuilder({[g |-> Str(<<"a">>), v |-> Num(1)], [g |-> Str(<<"b">>), v |-> Num(2)],
                  [g |-> Str(<<"a">>)]})
  /\ [][NextSection]_vars

-----------------------------------------------------------------------------
(* CSVWriter over a worksheet filled through createRow and createCell *)

Includes(cs, ch) == \E i \in DOMAIN cs : cs[i] = ch

\* value.replace(/"/g, '""')
RECURSIVE DoubleQuotes(_)
DoubleQuotes(cs) ==
  IF cs = <<>> THEN <<>>
  ELSE (IF Head(cs) = "\"" THEN <<"\"", "\"">> ELSE <<Head(cs)>>) \o DoubleQuotes(Tail(cs))

\* StringFormatter.escapeCsv(str, delimiter)
EscapeCsv(str, delimiter) ==
  IF Includes(str, delimiter) \/ Includes(str, "\"") \/ Includes(str, "\n")
  THEN <<"\"">> \o DoubleQuotes(str) \o <<"\"">>
  ELSE str

\* the wrapping without the doubling of the quotes inside
WrapCsvUndoubled(value) ==
  IF Includes(value, ",") \/ Includes(value, "\"") \/ Includes(value, "\n")
  THEN <<"\"">> \o value \o <<"\"">>
  ELSE value

\* the wrapping generateCSVData applies to the text of a cell
WrapCsv(value) ==
  IF Includes(value, ",") \/ Includes(value, "\"") \/ Includes(value, "\n")
  THEN <<"\"">> \o DoubleQuotes(value) \o <<"\"">>
  ELSE value

\* the field generateCSVData pushes for a cell: its text, wrapped
CsvField(cell) ==
  LET cellData == CellToData(cell)
  IN  WrapCsv(IF cellData.value.t \notin {"null", "undefined"}
              THEN (IF cellData.type = "date" /\ cellData.value.t = "date"
                    THEN IsoDate(cellData.value) ELSE JsString(cellData.value))
              ELSE <<>>)

GenerateCSVData(sheet) ==
  LET line(row) == JsJoin([i \in DOMAIN row.cells |-> Str(CsvField(row.cells[i]))], <<",">>)
  IN  JsJoin([r \in DOMAIN sheet.rows |-> Str(line(sheet.rows[r]))], <<"\n">>)

MaxLen == 3
MaxCells == 2

RECURSIVE CellTotal(_)
CellTotal(rows) == IF rows = <<>> THEN 0 ELSE Len(Head(rows).cells) + CellTotal(Tail(rows))

\* worksheet.createRow()
CreateRow ==
  /\ call.op # "write"
  /\ Len(sheets[1].rows) < MaxCells
  /\ sheets' = [sheets EXCEPT ![1] = WorksheetCreateRow(@)]
  /\ call' = [op |-> "createRow", n |-> call.n + 1]
  /\ UNCHANGED <<properties, data, currentRow, sections, rowKinds, csv,
               exported, builderStyle, heap, built>>

\* createCell(text) on the last row, the texts of the sheet holding up to MaxLen
\* characters altogether
CreateCell ==
  /\ call.op # "write"
  /\ CellTotal(sheets[1].rows) < MaxCells
  /\ sheets[1].rows # <<>>
  /\ LET rows == sheets[1].rows
         texts(row) == JsJoin([i \in DOMAIN row.cells |-> row.cells[i].value], <<>>)
         written == JsJoin([r \in DOMAIN rows |-> Str(texts(rows[r]))], <<>>)
     IN  \E text \in SeqsUpTo({"a", ",", "\"", "\n"}, MaxLen - Len(written)) :
           sheets' = [sheets EXCEPT ![1].rows[Len(rows)] =
                        RowCreateCell(@, Str(text), Undefined)]
  /\ call' = [op |-> "createCell", n |-> call.n + 1]
  /\ UNCHANGED <<properties, data, currentRow, sections, rowKinds, csv,
               exported, builderStyle, heap, built>>

\* CSVWriter.write: the text of the first sheet
WriteCsv ==
  /\ call.op # "write"
  /\ csv' = GenerateCSVData(sheets[1])
  /\ call' = [op |-> "write", n |-> call.n + 1]
  /\ UNCHANGED <<sheets, properties, data, currentRow, sections, rowKinds,
               exported, builderStyle, heap, built>>

NextCsv ==
  \/ CreateRow
  \/ CreateCell
  \/ WriteCsv

SpecCsv == InitBuilder({}) /\ [][NextCsv]_vars

-----------------------------------------------------------------------------
(* ExcelWriter and JSONWriter, and the export entry points of Workbook and   *)
(* ExportBuilder.  An export ends in a blob (the writer that ran and the     *)
(* data it generated), in a rejected promise or in a synchronous throw.      *)

\* the loop of columnToLetter gives the letters of column, and '' || 'A' for a
\* column that is not positive
RECURSIVE ColumnToLetterBase26(_)
ColumnToLetterBase26(column) ==
  IF column <= 0 THEN <<"A">>
  ELSE LET temp == column % 26
           rest == (column - temp) \div 26
           letter == <<"A", "B", "C", "D", "E", "F", "G", "H", "I", "J", "K", "L", "M",
                       "N", "O", "P", "Q", "R", "S", "T", "U", "V", "W", "X", "Y", "Z">>
       IN  (IF rest > 0 THEN ColumnToLetterBase26(rest) ELSE <<>>) \o <<letter[temp + 1]>>

RECURSIVE ColumnToLetter(_)
ColumnToLetter(column) ==
  IF column <= 0 THEN <<"A">>
  ELSE LET temp == (column - 1) % 26
           rest == (column - temp - 1) \div 26
           letter == <<"A", "B", "C", "D", "E", "F", "G", "H", "I", "J", "K", "L", "M",
                       "N", "O", "P", "Q", "R", "S", "T", "U", "V", "W", "X", "Y", "Z">>
       IN  (IF rest > 0 THEN ColumnToLetter(rest) ELSE <<>>) \o <<letter[temp + 1]>>

\* sheet['mergeCells'] is the method of the Worksheet (its array of regions is the
\* field mergedCells); sheet['freezePane'] is the field
\* getSheetRange(data): data holds one array per row and one element per cell
\* (each branch of the loop pushes one), given here by the lengths
GenerateSheetData(sheet) ==
  LET lengths == [r \in DOMAIN sheet.rows |-> Len(sheet.rows[r].cells)]
      lastCol == CHOOSE n \in {lengths[r] : r \in DOMAIN lengths} :
                   \A r \in DOMAIN lengths : lengths[r] <= n
      getSheetRange ==
        IF lengths = <<>> THEN <<"A", "1", ":", "A", "1">>
        ELSE <<"A", "1", ":">> \o ColumnToLetter(lastCol) \o NatChars(Len(lengths))
  IN
  [ref |-> getSheetRange,
   rows |-> [r \in DOMAIN sheet.rows |->
               [hpt |-> sheet.rows[r].height, hidden |-> sheet.rows[r].hidden,
                outlineLevel |-> sheet.rows[r].outlineLevel,
                collapsed |-> sheet.rows[r].collapsed]],
   cols |-> [c \in DOMAIN sheet.columns |->
               [wch |-> sheet.columns[c].width, hidden |-> sheet.columns[c].hidden,
                outlineLevel |-> sheet.columns[c].outlineLevel,
                collapsed |-> sheet.columns[c].collapsed]],
   merges |-> [t |-> "function", name |-> "mergeCells"],
   freeze |-> sheet.freezePane]

\* Sheets is the object the reduce fills, a later sheet of the same name replacing
\* the earlier one; SheetNames is the array of the names
GenerateExcelData(shs) ==
  LET sheetName(index) ==
        IF shs[index].name # <<>> THEN shs[index].name
        ELSE <<"S", "h", "e", "e", "t">> \o NatChars(index)
      last(name) == CHOOSE i \in DOMAIN shs :
                      /\ sheetName(i) = name
                      /\ \A j \in DOMAIN shs : sheetName(j) = name => j <= i
  IN  [Sheets |-> [name \in {sheetName(i) : i \in DOMAIN shs} |->
                     GenerateSheetData(shs[last(name)])],
       SheetNames |-> [i \in DOMAIN shs |-> sheetName(i)]]

\* generateJSONData(sheet).  The callback that names an empty header cell reads
\* headers.length while the const headers is still being initialised: it throws
\* (a ReferenceError, or a TypeError when compiled to var), given here as error.
GenerateJSONData(sheet, error) ==
  LET rows == sheet.rows
      first == rows[1].cells
      headers == [c \in DOMAIN first |-> JsString(first[c].value)]
      value(cell) ==
        IF cell.type = "date" /\ cell.value.t = "date"
        THEN Str(IsoDate(cell.value) \o <<"T", "0", "0", ":", "0", "0", ":", "0", "0",
                                          ".", "0", "0", "0", "Z">>)
        ELSE cell.value
      rowData(row) ==
        LET used == {i \in DOMAIN row.cells : i <= Len(headers)}
            last(key) == CHOOSE i \in used :
                           headers[i] = key /\ \A j \in used : headers[j] = key => j <= i
        IN  [key \in {headers[i] : i \in used} |-> value(row.cells[last(key)])]
  IN  IF rows = <<>> THEN Arr(<<>>)
      ELSE IF \E c \in DOMAIN first : Falsy(first[c].value)
      THEN [t |-> "throw", error |-> error]
      ELSE Arr([i \in 1..(Len(rows) - 1) |-> Obj(rowData(rows[i + 1]))])

\* writer.write(workbook, options) of the writer named: the blob, or the promise
\* rejected by what the writer threw (CSV and JSON read sheets[0].getRows())
WriterWrite(writer, shs, error) ==
  CASE writer = "ExcelWriter" ->
         [t |-> "blob", writer |-> writer, data |-> GenerateExcelData(shs)]
    [] writer = "CSVWriter" ->
         IF shs = <<>> THEN [t |-> "rejected", writer |-> writer, error |-> "TypeError"]
         ELSE [t |-> "blob", writer |-> writer, data |-> Str(GenerateCSVData(shs[1]))]
    [] writer = "JSONWriter" ->
         IF shs = <<>> THEN [t |-> "rejected", writer |-> writer, error |-> "TypeError"]
         ELSE LET jsonData == GenerateJSONData(shs[1], error)
              IN  IF jsonData.t = "throw"
                  THEN [t |-> "rejected", writer |-> writer, error |-> jsonData.error]
                  ELSE [t |-> "blob", writer |-> writer, data |-> jsonData]

\* Workbook.export(options): const { format = 'xlsx' } = options, then the switch
WorkbookExport(shs, options, error) ==
  LET format == IF Prop(options, "format").t = "undefined" THEN Str(<<"x", "l", "s", "x">>)
                ELSE options.format
  IN  CASE format = Str(<<"c", "s", "v">>) -> WriterWrite("CSVWriter", shs, error)
        [] format = Str(<<"j", "s", "o", "n">>) -> WriterWrite("JSONWriter", shs, error)
        [] OTHER -> WriterWrite("ExcelWriter", shs, error)

\* ExportBuilder.download(options), up to the promise of writer.write
ExportBuilderDownload(shs, options, error) ==
  LET EndsWith(cs, suffix) ==
        Len(cs) >= Len(suffix) /\ SubSeq(cs, Len(cs) - Len(suffix) + 1, Len(cs)) = suffix
      filename == Or(Prop(options, "filename"),
                     Str(<<"e", "x", "p", "o", "r", "t", ".", "x", "l", "s", "x">>))
      format == Or(Prop(options, "format"),
                   IF EndsWith(filename.v, <<".", "c", "s", "v">>) THEN Str(<<"c", "s", "v">>)
                   ELSE IF EndsWith(filename.v, <<".", "j", "s", "o", "n">>)
                   THEN Str(<<"j", "s", "o", "n">>)
                   ELSE Str(<<"x", "l", "s", "x">>))
  IN  CASE format = Str(<<"x", "l", "s", "x">>) -> WriterWrite("ExcelWriter", shs, error)
        [] format = Str(<<"c", "s", "v">>) -> WriterWrite("CSVWriter", shs, error)
        [] format = Str(<<"j", "s", "o", "n">>) -> WriterWrite("JSONWriter", shs, error)
        [] OTHER -> [t |-> "throw", error |-> "Error",
                     message |-> <<"U", "n", "s", "u", "p", "p", "o", "r", "t", "e", "d", " ",
                                   "f", "o", "r", "m", "a", "t">>]

-----------------------------------------------------------------------------
(* Workbook.export on the document model *)

\* workbook.export(options); the call keeps, as before, the last call that was
\* not an export
Export ==
  /\ call.n < MaxOps
  /\ \E format \in {Undefined, Str(<<"c", "s", "v">>), Str(<<"j", "s", "o", "n">>),
                    Str(<<"x", "l", "s", "x">>), Str(<<"p", "d", "f">>)},
        error \in {"ReferenceError", "TypeError"} :
       /\ exported' = WorkbookExport(sheets, Given([format |-> format]), error)
       /\ call' = [op |-> "export", n |-> call.n + 1, format |-> format,
                   before |-> IF call.op \in {"export", "download"} THEN call.before
                              ELSE call]
  /\ UNCHANGED <<sheets, properties, data, currentRow, sections, rowKinds, csv,
                 builderStyle, heap, built>>

NextWriters ==
  \/ Next
  \/ Export

SpecWriters == Init /\ [][NextWriters]_vars

-----------------------------------------------------------------------------
(* ExportBuilder over its own workbook of one sheet *)

\* createRow(), then row.createCell(header, style) for each header
ExportBuilderAddHeaderRow(ws, headers, style) ==
  LET created == WorksheetCreateRow(ws)
  IN  [created EXCEPT !.rows[Len(created.rows)].cells =
         [i \in DOMAIN headers |-> NewCell(Str(headers[i]), style)]]

\* addDataRows with the row created once, before the loop over the items
RECURSIVE AddDataRowsOneRow(_, _, _)
AddDataRowsOneRow(ws, items, fields) ==
  IF items = <<>> THEN ws
  ELSE LET item == Head(items)
           created == IF fields = Null THEN ws ELSE WorksheetCreateRow(ws)
           values == [i \in DOMAIN ObjectKeys(item) |-> item[ObjectKeys(item)[i]]]
       IN  AddDataRowsOneRow(
             [created EXCEPT !.rows[Len(created.rows)].cells =
                @ \o [i \in DOMAIN values |-> NewCell(values[i], Undefined)]],
             Tail(items), Null)

\* addDataRows(data, fields) for items that are objects, arrays or primitives
\* (typeof null is 'object' too, and Object.values(null) throws: no item is null)
RECURSIVE ExportBuilderAddDataRows(_, _, _)
ExportBuilderAddDataRows(ws, items, fields) ==
  IF items = <<>> THEN ws
  ELSE LET item == Head(items)
           created == WorksheetCreateRow(ws)
           values ==
             IF Truthy(fields) /\ fields.v # <<>>
             THEN [i \in DOMAIN fields.v |-> GetNestedValue(item, fields.v[i])]
             ELSE IF "t" \notin DOMAIN item
             THEN [i \in DOMAIN ObjectKeys(item) |-> item[ObjectKeys(item)[i]]]
             ELSE IF item.t = "array" THEN item.v
             ELSE <<item>>
       IN  ExportBuilderAddDataRows(
             [created EXCEPT !.rows[Len(created.rows)].cells =
                [i \in DOMAIN values |-> NewCell(values[i], Undefined)]],
             Tail(items), fields)

AddHeaderRow ==
  /\ FirstCall
  /\ \E headers \in {<<>>, << <<"N", "a", "m", "e">>, <<"A", "g", "e">> >>} :
       /\ sheets' = [sheets EXCEPT ![1] = ExportBuilderAddHeaderRow(@, headers, Undefined)]
       /\ call' = [op |-> "addHeaderRow", n |-> call.n + 1, headers |-> headers]
  /\ UNCHANGED <<properties, data, currentRow, sections, rowKinds, csv,
                 exported, builderStyle, heap, built>>

AddDataRows ==
  /\ call.op \in {"new", "addHeaderRow"}
  /\ \E fields \in {Undefined, Arr(<<"age">>)} :
       /\ sheets' = [sheets EXCEPT ![1] = ExportBuilderAddDataRows(@, data, fields)]
       /\ call' = [op |-> "addDataRows", n |-> call.n + 1, fields |-> fields, before |-> call]
  /\ UNCHANGED <<properties, data, currentRow, sections, rowKinds, csv,
                 exported, builderStyle, heap, built>>

\* download(options), once
Download ==
  /\ call.n < MaxOps
  /\ call.op # "download"
  /\ \E format \in {Undefined, Str(<<"p", "d", "f">>)},
        filename \in {Undefined, Str(<<"a", ".", "c", "s", "v">>)},
        error \in {"ReferenceError", "TypeError"} :
       /\ exported' = ExportBuilderDownload(
                        sheets, Given([format |-> format, filename |-> filename]), error)
       /\ call' = [op |-> "download", n |-> call.n + 1, format |-> format,
                   filename |-> filename,
                   before |-> IF call.op = "export" THEN call.before ELSE call]
  /\ UNCHANGED <<sheets, properties, data, currentRow, sections, rowKinds, csv,
                 builderStyle, heap, built>>

NextExport ==
  \/ AddHeaderRow
  \/ AddDataRows
  \/ Export
  \/ Download

SpecExport ==
  /\ InitBuilder({[name |-> Str(<<"J", "o", "h", "n">>), age |-> Num(30)],
                  [name |-> Str(<<"J", "a", "n", "e">>), age |-> Num(25)],
                  [name |-> Str(<<",", "\"", "\n">>), age |-> Null]})
  /\ [][NextExport]_vars

-----------------------------------------------------------------------------
(* exportToCSV(data, options), the function of the package index.  The field  *)
(* names are of one character, so that the text of a header is <<header>>.    *)

ExportToCSV(items, options) ==
  LET headers == IF Truthy(Prop(options, "headers")) THEN options.headers.v
                 ELSE IF items # <<>> THEN ObjectKeys(items[1]) ELSE <<>>
      \* item[header] || ''
      row(item) == [i \in DOMAIN headers |-> Or(Prop(item, headers[i]), Str(<<>>))]
      rows == << [i \in DOMAIN headers |-> Str(<<headers[i]>>)] >>
                \o [k \in DOMAIN items |-> row(items[k])]
      \* String(cell).includes(',') ? `"${cell}"` : cell
      text(cell) == IF Includes(JsString(cell), ",")
                    THEN Str(<<"\"">> \o JsString(cell) \o <<"\"">>) ELSE cell
      line(cells) == Str(JsJoin([i \in DOMAIN cells |-> text(cells[i])], <<",">>))
  IN  Str(JsJoin([k \in DOMAIN rows |-> line(rows[k])], <<"\n">>))

ExportToCsv ==
  /\ FirstCall
  /\ \E headers \in {Undefined, Arr(<<"g", "v">>), Arr(<<"v">>)} :
       LET options == Given([headers |-> headers])
       IN  /\ exported' = ExportToCSV(data, options)
           /\ call' = [op |-> "exportToCSV", n |-> call.n + 1, options |-> options]
  /\ UNCHANGED <<sheets, properties, data, currentRow, sections, rowKinds, csv,
                 builderStyle, heap, built>>

SpecFunction ==
  /\ InitBuilder([g : {Str(<<"x">>), Str(<<",">>)},
                  v : {Num(0), Num(1), Bool(FALSE), Bool(TRUE), Null}]
                   \cup {[g |-> Str(<<"x">>)]})
  /\ [][ExportToCsv]_vars

-----------------------------------------------------------------------------
(* columnToLetter on the positive columns up to MaxColumn *)

MaxColumn == 703

\* ExcelWriter.columnToLetter(column), as getSheetRange calls it for the last column
ColumnLetter ==
  /\ call.op = "new"
  /\ \E column \in 1..MaxColumn :
       /\ exported' = Str(ColumnToLetter(column))
       /\ call' = [op |-> "columnToLetter", n |-> call.n + 1, column |-> column]
  /\ UNCHANGED <<sheets, properties, data, currentRow, sections, rowKinds, csv,
                 builderStyle, heap, built>>

SpecLetters == Init /\ [][ColumnLetter]_vars

-----------------------------------------------------------------------------
(* One StyleBuilder and the styles it has returned.  The style under          *)
(* construction holds its border by reference: heap is the sequence of the    *)
(* Border objects allocated, and { ...this.style } copies the reference.      *)

\* bold(bold)
SetBold ==
  /\ call.n < MaxOps
  /\ \E bold \in BOOLEAN : builderStyle' = StyleSet(builderStyle, "bold", Bool(bold))
  /\ call' = [op |-> "bold", n |-> call.n + 1]
  /\ UNCHANGED <<sheets, properties, data, currentRow, sections, rowKinds, csv,
                 exported, heap, built>>

\* border(border), the caller's object being a new one
SetBorder ==
  /\ call.n < MaxOps
  /\ heap' = Append(heap, [side \in {"top"} |-> [style |-> "thin", color |-> Undefined]])
  /\ builderStyle' = StyleSet(builderStyle, "border", [t |-> "ref", at |-> Len(heap) + 1])
  /\ call' = [op |-> "border", n |-> call.n + 1]
  /\ UNCHANGED <<sheets, properties, data, currentRow, sections, rowKinds, csv,
                 exported, built>>

\* borderTop, borderRight, borderBottom, borderLeft (style, no color):
\* if (!this.style.border) this.style.border = {}; this.style.border[side] = { style, color }
BorderSide ==
  /\ call.n < MaxOps
  /\ \E side \in {"top", "right", "bottom", "left"}, borderStyle \in {"thin", "thick"} :
       LET allocated == IF "border" \in DOMAIN builderStyle THEN heap
                        ELSE Append(heap, EmptyObject)
           at == IF "border" \in DOMAIN builderStyle THEN builderStyle.border.at
                 ELSE Len(heap) + 1
       IN  /\ heap' = [allocated EXCEPT ![at] =
                         StyleSet(@, side, [style |-> borderStyle, color |-> Undefined])]
           /\ builderStyle' = StyleSet(builderStyle, "border", [t |-> "ref", at |-> at])
  /\ call' = [op |-> "borderSide", n |-> call.n + 1]
  /\ UNCHANGED <<sheets, properties, data, currentRow, sections, rowKinds, csv,
                 exported, built>>

\* borderAll(style): a new Border object of the four sides
BorderAll ==
  /\ call.n < MaxOps
  /\ \E borderStyle \in {"thin", "thick"} :
       heap' = Append(heap, [side \in {"top", "right", "bottom", "left"} |->
                               [style |-> borderStyle, color |-> Undefined]])
  /\ builderStyle' = StyleSet(builderStyle, "border", [t |-> "ref", at |-> Len(heap) + 1])
  /\ call' = [op |-> "borderAll", n |-> call.n + 1]
  /\ UNCHANGED <<sheets, properties, data, currentRow, sections, rowKinds, csv,
                 exported, built>>

\* build(): return { ...this.style }
Build ==
  /\ call.n < MaxOps
  /\ built' = Append(built, builderStyle)
  /\ call' = [op |-> "build", n |-> call.n + 1]
  /\ UNCHANGED <<sheets, properties, data, currentRow, sections, rowKinds, csv,
                 exported, builderStyle, heap>>

NextStyle ==
  \/ SetBold
  \/ SetBorder
  \/ BorderSide
  \/ BorderAll
  \/ Build

SpecStyle == Init /\ [][NextStyle]_vars

-----------------------------------------------------------------------------
(* A worksheet and the worksheets made as Worksheet.fromData(S.toData()).     *)
(* Here a worksheet holds its mergedCells array by reference: heap is the     *)
(* sequence of the arrays allocated; toData() hands out this.mergedCells and  *)
(* fromData keeps data.mergeCells, the same array, while rows.map and         *)
(* Row.fromData / Cell.fromData make new rows and cells.                      *)

\* Worksheet.fromData(S.toData()) of the first worksheet
CopySheet ==
  /\ call.n < MaxOps
  /\ Len(sheets) < MaxSheets
  /\ sheets' = Append(sheets, WorksheetFromData(WorksheetToData(sheets[1])))
  /\ call' = [op |-> "fromData", n |-> call.n + 1]
  /\ UNCHANGED <<properties, data, currentRow, sections, rowKinds, csv,
                 exported, builderStyle, heap, built>>

\* mergeCells: this.mergedCells.push({ startRow, startCol, endRow, endCol })
PushMergedCells ==
  /\ call.n < MaxOps
  /\ \E s \in DOMAIN sheets, startRow \in 0..MaxIndex :
       /\ heap' = [heap EXCEPT ![sheets[s].mergedCells.at] =
                     Append(@, [startRow |-> startRow, startCol |-> 0,
                                endRow |-> startRow, endCol |-> 1])]
       /\ call' = [op |-> "mergeCells", n |-> call.n + 1, sheet |-> s, index |-> startRow]
  /\ UNCHANGED <<sheets, properties, data, currentRow, sections, rowKinds, csv,
                 exported, builderStyle, built>>

NextCopy ==
  \/ CopySheet
  \/ PushMergedCells
  \/ SetCell
  \/ SetOutlineLevel

\* from one new worksheet, its mergedCells the first array of the heap
SpecCopy ==
  /\ sheets = <<[NewWorksheet(<<"A">>) EXCEPT !.mergedCells = [t |-> "ref", at |-> 1]]>>
  /\ properties = EmptyObject
  /\ data = <<>>
  /\ currentRow = 0
  /\ sections = EmptyObject
  /\ rowKinds = <<>>
  /\ call = [op |-> "new", n |-> 0]
  /\ csv = <<>>
  /\ exported = Undefined
  /\ builderStyle = EmptyObject
  /\ heap = << <<>> >>
  /\ built = <<>>
  /\ [][NextCopy]_vars

-----------------------------------------------------------------------------
(* SheetBuilder.  A builder state b is [ws, row]: its worksheet and its       *)
(* currentRow.  The variable currentRow is the builder's, sheets[1] its       *)
(* worksheet.                                                                 *)

\* addTitle and addSubtitle, which differ in the style of the cell: createRow()
\* (the row pushed, currentRow++), the cell, and the merge over colSpan columns
SheetBuilderAddTitle(b, title, colSpan, style) ==
  LET created == [ws |-> WorksheetCreateRow(b.ws), row |-> b.row + 1]
      titled == [created EXCEPT !.ws.rows[Len(created.ws.rows)] =
                   [@ EXCEPT !.cells = <<CellSetStyle(NewCell(title, Undefined), style)>>]]
  IN  IF colSpan > 1
      THEN [titled EXCEPT !.ws = WorksheetMergeCells(@, titled.row - 1, 0,
                                                     titled.row - 1, colSpan - 1)]
      ELSE titled

\* getOrCreateColumn(index): the column at index, or else a column pushed at
\* the end of the list; at is its place in the list (from 1)
GetOrCreateColumn(ws, index) ==
  IF index + 1 \in DOMAIN ws.columns
  THEN [ws |-> ws, at |-> index + 1]
  ELSE [ws |-> [ws EXCEPT !.columns = Append(@, NewColumn(Undefined))],
        at |-> Len(ws.columns) + 1]

\* the for loop of groupColumns from column i on
RECURSIVE GroupColumnsFrom(_, _, _, _, _, _)
GroupColumnsFrom(ws, i, startCol, endCol, level, collapsed) ==
  IF i > endCol THEN ws
  ELSE LET c == GetOrCreateColumn(ws, i)
       IN  GroupColumnsFrom(
             [c.ws EXCEPT !.columns[c.at] =
                ColumnSetOutlineLevel(@, level, Bool(collapsed /\ i = startCol))],
             i + 1, startCol, endCol, level, collapsed)

AddTitle ==
  /\ call.n < MaxOps
  /\ \E subtitle \in BOOLEAN, colSpan \in {1, 2} :
       LET style ==
             IF subtitle
             THEN StyleBuild(StyleSet(StyleSet(StyleSet(StyleCreate, "italic", Bool(TRUE)),
                    "color", Str(<<"#", "6", "6", "6", "6", "6", "6">>)),
                    "alignment", Str(<<"c", "e", "n", "t", "e", "r">>)))
             ELSE StyleBuild(StyleSet(StyleSet(StyleBold, "fontSize", Num(14)),
                    "alignment", Str(<<"c", "e", "n", "t", "e", "r">>)))
           b == SheetBuilderAddTitle([ws |-> sheets[1], row |-> currentRow],
                                     Str(<<"T">>), colSpan, style)
       IN  /\ sheets' = [sheets EXCEPT ![1] = b.ws]
           /\ currentRow' = b.row
           /\ call' = [op |-> IF subtitle THEN "addSubtitle" ELSE "addTitle",
                       n |-> call.n + 1, colSpan |-> colSpan]
  /\ UNCHANGED <<properties, data, sections, rowKinds, csv,
                 exported, builderStyle, heap, built>>

\* hideColumn(colIndex)
HideColumn ==
  /\ call.n < MaxOps
  /\ \E colIndex \in 0..MaxIndex :
       LET c == GetOrCreateColumn(sheets[1], colIndex)
       IN  /\ sheets' = [sheets EXCEPT ![1] = [c.ws EXCEPT !.columns[c.at].hidden = Bool(TRUE)]]
           /\ call' = [op |-> "hideColumn", n |-> call.n + 1,
                       index |-> colIndex, last |-> colIndex]
  /\ UNCHANGED <<properties, data, currentRow, sections, rowKinds, csv,
                 exported, builderStyle, heap, built>>

\* setColumnAutoFit(colIndex): setWidth(0)
SetColumnAutoFit ==
  /\ call.n < MaxOps
  /\ \E colIndex \in 0..MaxIndex :
       LET c == GetOrCreateColumn(sheets[1], colIndex)
       IN  /\ sheets' = [sheets EXCEPT ![1] = [c.ws EXCEPT !.columns[c.at].width = Num(0)]]
           /\ call' = [op |-> "setColumnAutoFit", n |-> call.n + 1,
                       index |-> colIndex, last |-> colIndex]
  /\ UNCHANGED <<properties, data, currentRow, sections, rowKinds, csv,
                 exported, builderStyle, heap, built>>

\* SheetBuilder.setColumnOutlineLevel(colIndex, level)
SheetSetColumnOutlineLevel ==
  /\ call.n < MaxOps
  /\ \E colIndex \in 0..MaxIndex :
       LET c == GetOrCreateColumn(sheets[1], colIndex)
       IN  /\ sheets' = [sheets EXCEPT ![1] =
                           [c.ws EXCEPT !.columns[c.at] =
                              ColumnSetOutlineLevel(@, Num(2), Bool(FALSE))]]
           /\ call' = [op |-> "setColumnOutlineLevel", n |-> call.n + 1,
                       index |-> colIndex, last |-> colIndex]
  /\ UNCHANGED <<properties, data, currentRow, sections, rowKinds, csv,
                 exported, builderStyle, heap, built>>

\* groupColumns(startCol, endCol), level 1
GroupColumns ==
  /\ call.n < MaxOps
  /\ \E startCol \in 0..MaxIndex, endCol \in 0..MaxIndex, collapsed \in BOOLEAN :
       /\ startCol <= endCol
       /\ sheets' = [sheets EXCEPT ![1] =
                       GroupColumnsFrom(@, startCol, startCol, endCol, Num(1), collapsed)]
       /\ call' = [op |-> "groupColumns", n |-> call.n + 1,
                   index |-> startCol, last |-> endCol]
  /\ UNCHANGED <<properties, data, currentRow, sections, rowKinds, csv,
                 exported, builderStyle, heap, built>>

\* setCell is SheetBuilder.setCell, which hands its arguments to the worksheet
NextSheet ==
  \/ SetCell
  \/ AddTitle
  \/ HideColumn
  \/ SetColumnAutoFit
  \/ SheetSetColumnOutlineLevel
  \/ GroupColumns

\* SheetBuilder.create('S')
SpecSheet ==
  /\ InitBuilder({})
  /\ [][NextSheet]_vars

-----------------------------------------------------------------------------
(* C1: for every workbook the mutators can build, rebuilding it from its    *)
(* toData() and taking toData() again gives a structurally equal document.  *)

RoundTrip(shs, props) ==
  LET d == WorkbookToData(shs, props)
      w == WorkbookFromData(d)
  IN  WorkbookToData(w.sheets, w.properties)

C1_RoundTripEqual ==
  RoundTrip(sheets, properties) = WorkbookToData(sheets, properties)

-----------------------------------------------------------------------------
(* C2: after createFromData with a groupBy on the empty worksheet, the data  *)
(* rows emitted are as many as the records.                                  *)

CountOf(kinds, kind) == Cardinality({i \in DOMAIN kinds : kinds[i] = kind})

GroupedFirstCall ==
  /\ call.op = "createFromData"
  /\ call.n = 1
  /\ Truthy(Prop(call.options, "groupBy"))

C2_DataRowsEqualRecords ==
  GroupedFirstCall => CountOf(rowKinds, "data") = Len(data)

-----------------------------------------------------------------------------
(* C3: the groups of createFromData are iterated in the order in which each *)
(* distinct key first appears in the records, keys that read as integers     *)
(* included, and each group holds its records in their original order.       *)

\* the distinct values of String(item[f]), each at its first appearance
RECURSIVE FirstSeenKeys(_, _)
FirstSeenKeys(items, f) ==
  IF items = <<>> THEN <<>>
  ELSE LET before == FirstSeenKeys(SubSeq(items, 1, Len(items) - 1), f)
           key == JsString(Prop(items[Len(items)], f))
       IN  IF \E i \in DOMAIN before : before[i] = key THEN before ELSE Append(before, key)

RecordsOfKey(items, f, key) ==
  LET HasIt(item) == JsString(Prop(item, f)) = key
  IN  SelectSeq(items, HasIt)

GroupedCall ==
  /\ call.op = "createFromData"
  /\ Truthy(Prop(call.options, "groupBy"))

C3_GroupsInFirstSeenOrder ==
  GroupedCall =>
    LET subs == call.config.subSections.v
        keys == FirstSeenKeys(data, "g")
    IN  /\ Len(subs) = Len(keys)
        /\ \A i \in DOMAIN subs : subs[i].data = RecordsOfKey(data, "g", keys[i])

-----------------------------------------------------------------------------
(* C4: the value addPivotSection places in the Grand Total section for a    *)
(* value field with aggregate 'sum' is the sum of the field over all the     *)
(* records, whatever the row and column dimensions.                          *)

\* the sum of the numbers among the values of field f
RECURSIVE FieldSum(_, _)
FieldSum(items, f) ==
  IF items = <<>> THEN 0
  ELSE (IF Prop(Head(items), f).t = "number" THEN Head(items)[f].v ELSE 0)
         + FieldSum(Tail(items), f)

PivotCall == call.op = "addPivotSection"

GrandTotalsShown == Prop(call.options, "showGrandTotals").t = "undefined"

SubTotalsShown == Prop(call.options, "showSubTotals").t = "undefined"

LastRow == sheets[1].rows[Len(sheets[1].rows)]

-----------------------------------------------------------------------------
(* C5: after addPivotSection with subtotals shown, the worksheet holds, for *)
(* every row group, the title rows of its column cells and of its subtotal,  *)
(* all of them before the Grand Total.                                       *)

TitleRows == {i \in DOMAIN rowKinds : rowKinds[i] = "title"}

TitleAt(i) == sheets[1].rows[i].cells[1].value.v

RowsTitled(title) == {i \in TitleRows : TitleAt(i) = title}

C5_SubtotalPerRowGroup ==
  (PivotCall /\ SubTotalsShown) =>
    LET rowGroups == GroupMultiLevel(data, call.dimensions.rows)
        BeforeGrandTotal(i) == \A j \in RowsTitled(GrandTotalTitle) : i < j
    IN  \A r \in DOMAIN rowGroups :
          LET colGroups == GroupMultiLevel(rowGroups[r].items, call.dimensions.columns)
          IN  /\ \E i \in RowsTitled(rowGroups[r].key \o SubtotalSuffix) : BeforeGrandTotal(i)
              /\ \A c \in DOMAIN colGroups :
                   \E i \in RowsTitled(colGroups[c].key) : BeforeGrandTotal(i)

-----------------------------------------------------------------------------
(* C6: with period 'week' a record dated 2024-01-01 is under the section    *)
(* "2024-W01" and one dated 2024-01-08 under "2024-W02"; in general the key  *)
(* is the year, "-W" and the ISO week number in two digits.                  *)

\* the day of the week, 1 for Monday to 7 for Sunday
IsoWeekday(date) == ((DateUTC(date.y, date.m, date.d) + 3) % 7) + 1

\* a year has 53 ISO weeks when it starts on a Thursday, or is a leap year
\* that starts on a Wednesday
IsoWeeksInYear(y) ==
  LET first == IsoWeekday(DateOf(y, 1, 1))
  IN  IF first = 4 \/ (IsLeapYear(y) /\ first = 3) THEN 53 ELSE 52

IsoWeek(date) ==
  LET ordinal == DaysBeforeMonth(date.y, date.m) + date.d
      w == (ordinal - IsoWeekday(date) + 10) \div 7
  IN  IF w < 1 THEN IsoWeeksInYear(date.y - 1)
      ELSE IF w > IsoWeeksInYear(date.y) THEN 1 ELSE w

IsoWeekKey(date) == NatChars(date.y) \o <<"-", "W">> \o PadStart2(NatChars(IsoWeek(date)))

WeekCall ==
  /\ call.op = "addTimelineSection"
  /\ call.period = "week"
  /\ Prop(call.options, "format").t = "undefined"

C6_WeekKeyTwoDigits ==
  WeekCall =>
    /\ \A i \in DOMAIN data : RowsTitled(IsoWeekKey(data[i].d)) # {}
    /\ \A i \in DOMAIN data :
         /\ data[i].d = DateOf(2024, 1, 1)
              => RowsTitled(<<"2", "0", "2", "4", "-", "W", "0", "1">>) # {}
         /\ data[i].d = DateOf(2024, 1, 8)
              => RowsTitled(<<"2", "0", "2", "4", "-", "W", "0", "2">>) # {}

-----------------------------------------------------------------------------
(* C7: whatever the order of the records, addTimelineSection emits the      *)
(* sections of the periods in ascending lexicographic order of their keys.   *)

TimelineCall == call.op = "addTimelineSection"

C7_SectionsAscending ==
  TimelineCall =>
    \A i \in TitleRows, j \in TitleRows : i < j => ~LexLess(TitleAt(j), TitleAt(i))

-----------------------------------------------------------------------------
(* C8: 'average' over records none of which has a number in the field.      *)

NoNumber(items, f) == \A i \in DOMAIN items : Prop(items[i], f).t # "number"

\* the aggregate function of the call
FunctionOf(c) ==
  IF c.op = "addPivotSection" THEN c.dimensions.values[1].aggregate ELSE c.function

AggregateCall(function) == call.op # "new" /\ FunctionOf(call) = function

SummaryRowEmitted == rowKinds # <<>> /\ rowKinds[Len(rowKinds)] = "summary"

\* every value addPivotSection computed: of the cells, of the subtotals and of
\* the Grand Total
PivotComputed ==
  LET configs == call.configs
      own(i) == {configs[i].data[k]["v"] : k \in DOMAIN configs[i].data}
      subs(i) == IF "subSections" \in DOMAIN configs[i] THEN configs[i].subSections.v ELSE <<>>
      inner(i) == UNION {{subs(i)[j].data[k]["v"] : k \in DOMAIN subs(i)[j].data} :
                           j \in DOMAIN subs(i)}
  IN  UNION {own(i) \cup inner(i) : i \in DOMAIN configs}

\* the average of nothing as the routine `op` is said to give it
AverageOfNothing(summaryRow, summarySection, pivot) ==
  (AggregateCall("average") /\ NoNumber(data, "v")) =>
    /\ (call.op = "createFromData" /\ data # <<>>) =>
         SummaryRowEmitted /\ LastRow.cells[2].value = summaryRow
    /\ call.op = "addSummarySection" => LastRow.cells[2].value = summarySection
    /\ call.op = "addPivotSection" =>
         PivotComputed = {pivot} /\ LastRow.cells[1].value = pivot

-----------------------------------------------------------------------------
(* C9: 'count' is the number of the records aggregated, whether or not the  *)
(* field is null, missing or non-numeric in some of them.                    *)

C9_CountIsRecords ==
  AggregateCall("count") =>
    /\ (call.op = "createFromData" /\ data # <<>>) =>
         SummaryRowEmitted /\ LastRow.cells[2].value = Num(Len(data))
    /\ call.op = "addSummarySection" => LastRow.cells[2].value = Num(Len(data))
    /\ call.op = "addPivotSection" => LastRow.cells[1].value = Num(Len(data))

-----------------------------------------------------------------------------
(* C10: the field the CSV writer emits for a cell holding a string over     *)
(* comma, quote, newline and a letter reads back, under the standard CSV     *)
(* quoting rules, as that string; and so does the whole text of a sheet.     *)

\* a text that is no CSV
Malformed == <<>>

\* A reader of CSV: records are separated by a newline and fields by a comma;
\* a field that starts with a quote runs to the next quote that is not
\* doubled, a doubled quote inside standing for one quote.  mode is "start"
\* (at the start of a field), "plain", "quoted" or "closed" (after the quote
\* that may close a quoted field).
RECURSIVE ReadCsv(_, _, _, _, _)
ReadCsv(cs, mode, field, record, records) ==
  IF cs = <<>>
  THEN IF mode = "quoted" THEN Malformed ELSE Append(records, Append(record, field))
  ELSE LET ch == Head(cs)
           rest == Tail(cs)
       IN  CASE mode # "quoted" /\ ch = "," ->
                  ReadCsv(rest, "start", <<>>, Append(record, field), records)
             [] mode # "quoted" /\ ch = "\n" ->
                  ReadCsv(rest, "start", <<>>, <<>>, Append(records, Append(record, field)))
             [] mode = "start" /\ ch = "\"" -> ReadCsv(rest, "quoted", <<>>, record, records)
             [] mode = "quoted" /\ ch = "\"" -> ReadCsv(rest, "closed", field, record, records)
             [] mode = "quoted" /\ ch # "\"" ->
                  ReadCsv(rest, "quoted", Append(field, ch), record, records)
             [] mode = "closed" /\ ch = "\"" ->
                  ReadCsv(rest, "quoted", Append(field, "\""), record, records)
             [] mode \in {"start", "plain"} /\ ch \notin {",", "\n", "\""} ->
                  ReadCsv(rest, "plain", Append(field, ch), record, records)
             [] OTHER -> Malformed

ParseCsv(cs) == ReadCsv(cs, "start", <<>>, <<>>, <<>>)

Written == call.op = "write"

\* the texts of the cells, row by row
TextsOf(sheet) ==
  [r \in DOMAIN sheet.rows |->
     [c \in DOMAIN sheet.rows[r].cells |-> sheet.rows[r].cells[c].value.v]]

\* every row has a cell: a row without one writes the line of a row whose one
\* cell is empty
NoEmptyRow(sheet) ==
  sheet.rows # <<>> /\ \A r \in DOMAIN sheet.rows : sheet.rows[r].cells # <<>>

C10_CsvRoundTrip ==
  Written =>
    /\ \A r \in DOMAIN sheets[1].rows : \A c \in DOMAIN sheets[1].rows[r].cells :
         LET cell == sheets[1].rows[r].cells[c]
         IN  /\ ParseCsv(CsvField(cell)) = <<<<cell.value.v>>>>
             /\ ParseCsv(EscapeCsv(cell.value.v, ",")) = <<<<cell.value.v>>>>
    /\ NoEmptyRow(sheets[1]) => ParseCsv(csv) = TextsOf(sheets[1])

\* a written row of two cells, one holding a quote and a comma, the other a newline
C10_QuotedFieldsWritten ==
  /\ Written
  /\ \E r \in DOMAIN sheets[1].rows :
       /\ Len(sheets[1].rows[r].cells) = 2
       /\ sheets[1].rows[r].cells[1].value = Str(<<"\"", ",">>)
       /\ sheets[1].rows[r].cells[2].value = Str(<<"\n">>)
  /\ csv = <<"\"", "\"", "\"", ",", "\"", ",", "\"", "\n", "\"">>

-----------------------------------------------------------------------------
(* C11: addHeaderRow(H), addDataRows(R) and the export as csv give the header *)
(* line and then one line per record of R, in order, each the record's field  *)
(* values joined by commas, the lines joined by a newline.                     *)

\* the export as csv that follows addHeaderRow(H) and addDataRows(R)
HeaderDataCsv ==
  /\ call.op = "export"
  /\ call.format = Str(<<"c", "s", "v">>)
  /\ call.before.op = "addDataRows"
  /\ call.before.fields = Undefined
  /\ call.before.before.op = "addHeaderRow"

\* the field values of a record, in order
ValuesOf(record) == <<record.name, record.age>>

\* the text of the claim: the values as they are, joined by commas and newlines
C11_CsvLines ==
  HeaderDataCsv =>
    LET H == call.before.before.headers
        lines == <<Str(JsJoin([i \in DOMAIN H |-> Str(H[i])], <<",">>))>>
                   \o [r \in DOMAIN data |-> Str(JsJoin(ValuesOf(data[r]), <<",">>))]
    IN  exported = [t |-> "blob", writer |-> "CSVWriter",
                    data |-> Str(JsJoin(lines, <<"\n">>))]

\* C11 as it holds: read back under the CSV quoting rules, the text is the
\* header record and then one record per record of R, in order, of its field
\* values in order (null as the empty field); and it is the plain lines of the
\* claim when no value holds a comma, a quote or a newline
C11_CsvRecords ==
  HeaderDataCsv =>
    LET H == call.before.before.headers
        Text(v) == IF NotNullish(v) THEN JsString(v) ELSE <<>>
        Plain(record) ==
          \A i \in DOMAIN ValuesOf(record) :
            \A ch \in {",", "\"", "\n"} : ~Includes(Text(ValuesOf(record)[i]), ch)
    IN  /\ exported.t = "blob" /\ exported.writer = "CSVWriter"
        /\ ParseCsv(exported.data.v) =
             <<IF H = <<>> THEN << <<>> >> ELSE H>>
               \o [r \in DOMAIN data |->
                     [i \in DOMAIN ValuesOf(data[r]) |-> Text(ValuesOf(data[r])[i])]]
        /\ (\A r \in DOMAIN data : Plain(data[r])) => C11_CsvLines

\* the example of the claim: Name,Age / John,30 / Jane,25
C11_JohnAndJane ==
  /\ HeaderDataCsv
  /\ call.before.before.headers = << <<"N", "a", "m", "e">>, <<"A", "g", "e">> >>
  /\ data = <<[name |-> Str(<<"J", "o", "h", "n">>), age |-> Num(30)],
              [name |-> Str(<<"J", "a", "n", "e">>), age |-> Num(25)]>>
  /\ exported.data.v = <<"N", "a", "m", "e", ",", "A", "g", "e", "\n",
                         "J", "o", "h", "n", ",", "3", "0", "\n",
                         "J", "a", "n", "e", ",", "2", "5">>

-----------------------------------------------------------------------------
(* C12: the export as json of a sheet whose first row has an empty cell      *)
(* completes, and the records are keyed, for that column, by a positional    *)
(* placeholder name.                                                         *)

\* the export as json of a workbook whose first sheet has a row
JsonExported ==
  /\ call.op = "export"
  /\ call.format = Str(<<"j", "s", "o", "n">>)
  /\ sheets # <<>>
  /\ sheets[1].rows # <<>>

C12_EmptyHeaderGetsPlaceholder ==
  JsonExported =>
    LET rows == sheets[1].rows
        first == rows[1].cells
        Empty(v) == v.t \in {"null", "undefined"} \/ v = Str(<<>>)
        key(c) == IF Empty(first[c].value)
                  THEN <<"C", "o", "l", "u", "m", "n">> \o NatChars(c)
                  ELSE JsString(first[c].value)
    IN  /\ exported.t = "blob"
        /\ exported.data.t = "array"
        /\ Len(exported.data.v) = Len(rows) - 1
        /\ \A i \in DOMAIN exported.data.v :
             \A c \in DOMAIN rows[i + 1].cells :
               c <= Len(first) => key(c) \in DOMAIN exported.data.v[i].v

-----------------------------------------------------------------------------
(* C13: in the structure generateExcelData produces, every sheet of the       *)
(* workbook has its own entry in Sheets, and every name of SheetNames appears *)
(* once in SheetNames and is a key of Sheets.                                 *)

\* the workbook as it was exported by the ExcelWriter
XlsxExported ==
  /\ call.op = "export"
  /\ exported.t = "blob"
  /\ exported.writer = "ExcelWriter"

C13_OneEntryPerSheet ==
  XlsxExported =>
    LET Sheets == exported.data.Sheets
        SheetNames == exported.data.SheetNames
    IN  /\ Len(SheetNames) = Len(sheets)
        /\ Cardinality(DOMAIN Sheets) = Len(sheets)
        /\ \A i \in DOMAIN SheetNames : SheetNames[i] \in DOMAIN Sheets
        /\ \A i, j \in DOMAIN SheetNames : SheetNames[i] = SheetNames[j] => i = j

-----------------------------------------------------------------------------
(* C14: the structure generateSheetData produces for a sheet carries, in      *)
(* '!merges', the regions added with mergeCells and, in '!freeze', the pane   *)
(* set with setFreezePane.                                                    *)

C14_MergesAndFreezeCarried ==
  XlsxExported =>
    LET Sheets == exported.data.Sheets
        SheetNames == exported.data.SheetNames
    IN  \A i \in DOMAIN sheets :
          (\A j \in DOMAIN sheets : j > i => SheetNames[j] # SheetNames[i]) =>
            /\ Sheets[SheetNames[i]].merges = sheets[i].mergedCells
            /\ Sheets[SheetNames[i]].freeze = sheets[i].freezePane

-----------------------------------------------------------------------------
(* C15: columnToLetter is the bijective base-26 numeral of a positive column: *)
(* letters A..Z only, 1 -> A, 26 -> Z, 27 -> AA, 702 -> ZZ, 703 -> AAA, and   *)
(* reading the letters back as bijective base 26 gives the column.            *)

\* the value of letters read as a bijective base-26 numeral (A = 1 .. Z = 26)
RECURSIVE LettersToColumn(_)
LettersToColumn(letters) ==
  IF letters = <<>> THEN 0
  ELSE LET alphabet == <<"A", "B", "C", "D", "E", "F", "G", "H", "I", "J", "K", "L", "M",
                         "N", "O", "P", "Q", "R", "S", "T", "U", "V", "W", "X", "Y", "Z">>
           digit == CHOOSE d \in DOMAIN alphabet : alphabet[d] = letters[Len(letters)]
       IN  26 * LettersToColumn(SubSeq(letters, 1, Len(letters) - 1)) + digit

C15_ColumnLetterBijective ==
  call.op = "columnToLetter" =>
    LET letters == exported.v
        alphabet == {"A", "B", "C", "D", "E", "F", "G", "H", "I", "J", "K", "L", "M",
                     "N", "O", "P", "Q", "R", "S", "T", "U", "V", "W", "X", "Y", "Z"}
    IN  /\ letters # <<>>
        /\ \A i \in DOMAIN letters : letters[i] \in alphabet
        /\ LettersToColumn(letters) = call.column
        /\ call.column = 1 => letters = <<"A">>
        /\ call.column = 26 => letters = <<"Z">>
        /\ call.column = 27 => letters = <<"A", "A">>
        /\ call.column = 702 => letters = <<"Z", "Z">>
        /\ call.column = 703 => letters = <<"A", "A", "A">>

\* column 703 written as AAA
C15_Column703 ==
  /\ call.op = "columnToLetter"
  /\ call.column = 703
  /\ exported = Str(<<"A", "A", "A">>)

-----------------------------------------------------------------------------
(* C16: an export whose format is none of xlsx, csv and json fails with the   *)
(* unsupported-format error, no writer running and no bytes produced.         *)

C16_UnknownFormatRejected ==
  /\ call.op \in {"export", "download"}
  /\ call.format \notin {Undefined, Str(<<"x", "l", "s", "x">>), Str(<<"c", "s", "v">>),
                         Str(<<"j", "s", "o", "n">>)}
  => /\ exported.t = "throw"
     /\ exported.error = "UnsupportedFormatError"

-----------------------------------------------------------------------------
(* C17: a style build() has returned keeps every field, each side of its      *)
(* border included, whatever is called on the builder afterwards.             *)

\* the style as a value: its fields, the border read through its reference
StyleValue(s, borders) ==
  [field \in DOMAIN s |-> IF field = "border" THEN borders[s[field].at] ELSE s[field]]

C17_BuiltStyleUnchanged ==
  [][\A i \in DOMAIN built : StyleValue(built'[i], heap') = StyleValue(built[i], heap)]_vars

-----------------------------------------------------------------------------
(* C18: in every state of the document, the outline level of every row is an  *)
(* integer from 0 to 7.                                                       *)

C18_OutlineLevelInRange ==
  \A s \in DOMAIN sheets : \A r \in DOMAIN sheets[s].rows :
    LET level == sheets[s].rows[r].outlineLevel
    IN  level.t = "number" /\ level.v \in 0..7

-----------------------------------------------------------------------------
(* C19: whatever setValue, setFormula and setType calls a cell has seen, it   *)
(* holds a formula text only while its type is 'formula'.                     *)

C19_FormulaOnlyOnFormulaCells ==
  \A s \in DOMAIN sheets : \A r \in DOMAIN sheets[s].rows :
    \A c \in DOMAIN sheets[s].rows[r].cells :
      LET cell == sheets[s].rows[r].cells[c]
      IN  cell.formula # Undefined => cell.type = "formula"

-----------------------------------------------------------------------------
(* C20: mergeCells with an inverted range or a negative coordinate is         *)
(* rejected and leaves the merge regions of the worksheet as they were: no    *)
(* such region is ever in the list.                                           *)

C20_NoInvertedRegion ==
  \A s \in DOMAIN sheets : \A m \in DOMAIN sheets[s].mergedCells :
    LET region == sheets[s].mergedCells[m]
    IN  /\ 0 <= region.startRow /\ region.startRow <= region.endRow
        /\ 0 <= region.startCol /\ region.startCol <= region.endCol

-----------------------------------------------------------------------------
(* C21: setCell(k, c, v), setOutlineLevel(k, level) and                       *)
(* setColumnOutlineLevel(k, level) with k at or beyond the current length     *)
(* leave the row or column k existing, every entry from the old length up to  *)
(* k (k itself excepted) newly blank, and every row, column and cell that     *)
(* existed before as it was.                                                  *)

\* the call just made addressed an index at or beyond the length it found
AddressedBeyond ==
  /\ call'.op \in {"setCell", "setOutlineLevel", "setColumnOutlineLevel"}
  /\ LET ws == sheets[call'.sheet]
     IN  call'.index >= (IF call'.op = "setColumnOutlineLevel"
                         THEN Len(ws.columns) ELSE Len(ws.rows))

\* the entries of after extend those of before up to index k, blank between
Allocated(before, after, k, blank) ==
  /\ Len(after) = k + 1
  /\ \A i \in DOMAIN before : after[i] = before[i]
  /\ \A i \in (Len(before) + 1)..k : after[i] = blank

C21_ImplicitAllocation ==
  [][AddressedBeyond =>
       LET ws    == sheets[call'.sheet]
           after == sheets'[call'.sheet]
       IN  /\ \A s \in DOMAIN sheets : s # call'.sheet => sheets'[s] = sheets[s]
           /\ IF call'.op = "setColumnOutlineLevel"
              THEN /\ Allocated(ws.columns, after.columns, call'.index, NewColumn(Undefined))
                   /\ after.rows = ws.rows
              ELSE /\ Allocated(ws.rows, after.rows, call'.index, NewRow)
                   /\ after.columns = ws.columns]_vars

-----------------------------------------------------------------------------
(* C22: a section of level L that build() builds puts its title row at level  *)
(* L, its field-label row and each data row at L+1 and its summary row at     *)
(* L+2; its own rows come before those of its sub-sections, which follow in   *)
(* list order; a collapsed section has no data rows and none of its           *)
(* sub-sections.                                                              *)

\* the kinds and levels of the rows of a section, as the claim lays them out
RECURSIVE OutlineOf(_)
RECURSIVE OutlineOfAll(_)

OutlineOf(config) ==
  LET L == config.level.v
      open == config.collapsed # Bool(TRUE)
      rowOf(kind, level) == [kind |-> kind, level |-> Num(level)]
      title == IF Truthy(config.title) THEN <<rowOf("title", L)>> ELSE <<>>
      labels == IF Truthy(config.fields) THEN <<rowOf("labels", L + 1)>> ELSE <<>>
      records == [i \in DOMAIN config.data |-> rowOf("data", L + 1)]
      summary == IF Truthy(config.summary) THEN <<rowOf("summary", L + 2)>> ELSE <<>>
      own == IF open /\ config.data # <<>> THEN labels \o records \o summary ELSE <<>>
      subs == IF open /\ Truthy(Prop(config, "subSections"))
              THEN OutlineOfAll(config.subSections.v) ELSE <<>>
  IN  title \o own \o subs

OutlineOfAll(configs) ==
  IF configs = <<>> THEN <<>>
  ELSE OutlineOf(Head(configs)) \o OutlineOfAll(Tail(configs))

SectionCall == call.op \in {"addSection", "addSections"}

\* the kinds and levels of the rows the last call appended
Appended ==
  [i \in 1..(Len(sheets[1].rows) - call.rows) |->
     [kind |-> rowKinds[call.rows + i], level |-> sheets[1].rows[call.rows + i].outlineLevel]]

C22_SectionOutline == SectionCall => Appended = OutlineOfAll(call.configs)

\* a parent with a title, fields, a summary and records, and its sub-sections
C22_NestedSectionBuilt ==
  /\ call.op = "addSection"
  /\ Truthy(call.configs[1].title) /\ Truthy(call.configs[1].summary)
  /\ Truthy(call.configs[1].fields) /\ Truthy(Prop(call.configs[1], "subSections"))
  /\ call.configs[1].collapsed = Bool(FALSE)
  /\ call.configs[1].level = Num(1)
  /\ Len(data) = 2
  /\ Len(sheets[1].rows) = 14

-----------------------------------------------------------------------------
(* C23: a section build() builds whose configuration has a summary gets       *)
(* exactly one summary row, collapsed or not and with or without records; in  *)
(* that row the cells of the fields the summary does not list are blank.      *)

\* the sections build() is called on that have a summary: the configurations
\* and, below one that is not collapsed, its sub-sections
RECURSIVE SummarySpecs(_)
SummarySpecs(configs) ==
  IF configs = <<>> THEN 0
  ELSE LET config == Head(configs)
           subs == IF config.collapsed # Bool(TRUE) /\ Truthy(Prop(config, "subSections"))
                   THEN SummarySpecs(config.subSections.v) ELSE 0
       IN  (IF Truthy(config.summary) THEN 1 ELSE 0) + subs + SummarySpecs(Tail(configs))

\* the summary rows the last call appended
SummaryRowsAppended ==
  LET Summary(i) == i > call.rows /\ rowKinds[i] = "summary"
  IN  [i \in {i \in DOMAIN rowKinds : Summary(i)} |-> sheets[1].rows[i]]

C23_OneSummaryRowPerSpec ==
  SectionCall =>
    /\ Cardinality(DOMAIN SummaryRowsAppended) = SummarySpecs(call.configs)
    /\ \A i \in DOMAIN SummaryRowsAppended :
         \A c \in DOMAIN SummaryRowsAppended[i].cells :
           SummaryRowsAppended[i].cells[c].value \notin {Str(<<>>), Null, Undefined}
             => \/ c = 1
                \/ SummaryRowsAppended[i].cells[c].value.t = "number"

-----------------------------------------------------------------------------
(* C24: on a builder made over an empty worksheet, after every sequence of    *)
(* row-emitting calls (addSection, createFromData, addPivotSection,           *)
(* addSummarySection, ...) getCurrentRow() is the number of rows of the       *)
(* worksheet.                                                                 *)

C24_CursorIsRowCount == currentRow = Len(sheets[1].rows)

-----------------------------------------------------------------------------
(* C26: the summary row of a section with field list F has the aggregate of   *)
(* a summarised field F[i] in the column of F[i] in the section's data rows,  *)
(* and as many cells as a data row.                                           *)

\* addSection of one section with fields and a summary, its rows all emitted
SummarisedSection ==
  /\ call.op = "addSection"
  /\ Truthy(call.configs[1].fields) /\ Truthy(call.configs[1].summary)
  /\ ~Truthy(Prop(call.configs[1], "subSections"))
  /\ "summary" \in {rowKinds[i] : i \in DOMAIN rowKinds}

C26_SummaryAlignedWithData ==
  SummarisedSection =>
    LET F == call.configs[1].fields.v
        listed == call.configs[1].summary.fields
        Is(kind) == {i \in DOMAIN rowKinds : rowKinds[i] = kind}
    IN  \A s \in Is("summary") :
          /\ \A d \in Is("data") :
               Len(sheets[1].rows[s].cells) = Len(sheets[1].rows[d].cells)
          /\ \A i \in DOMAIN F :
               (\E j \in DOMAIN listed : listed[j] = F[i]) =>
                 /\ i \in DOMAIN sheets[1].rows[s].cells
                 /\ sheets[1].rows[s].cells[i].value.t = "number"

-----------------------------------------------------------------------------
(* C25: a worksheet made as Worksheet.fromData(S.toData()) is independent of  *)
(* S: a later mergeCells, setCell or setOutlineLevel on one of the two leaves *)
(* the toData() of the other as it was.                                       *)

\* toData() of a worksheet, the mergeCells array read out of the heap
DataOf(ws, arrays) == [WorksheetToData(ws) EXCEPT !.mergeCells = arrays[ws.mergedCells.at]]

C25_CopyIndependent ==
  [][call'.op \in {"mergeCells", "setCell", "setOutlineLevel"} =>
       \A s \in DOMAIN sheets :
         s # call'.sheet => DataOf(sheets'[s], heap') = DataOf(sheets[s], heap)]_vars

-----------------------------------------------------------------------------
(* C27: the merge region addTitle or addSubtitle adds lies on the row of the  *)
(* header row the same call has just appended, whether or not setCell has     *)
(* created rows in the worksheet before.                                      *)

C27_MergeOnAppendedRow ==
  [][(call'.op \in {"addTitle", "addSubtitle"} /\ call'.colSpan > 1) =>
       LET regions == sheets'[1].mergedCells
           region == regions[Len(regions)]
       IN  /\ Len(regions) = Len(sheets[1].mergedCells) + 1
           /\ Len(sheets'[1].rows) = Len(sheets[1].rows) + 1
           /\ region.startRow = Len(sheets'[1].rows) - 1
           /\ region.endRow = Len(sheets'[1].rows) - 1]_vars

-----------------------------------------------------------------------------
(* C28: after hideColumn(k), setColumnAutoFit(k), setColumnOutlineLevel(k, l) *)
(* or groupColumns(k, m) the worksheet has the columns addressed, the setting *)
(* is on them, and no column of another index is changed.                     *)

C28_SettingOnAddressedColumn ==
  [][call'.op \in {"hideColumn", "setColumnAutoFit", "setColumnOutlineLevel",
                   "groupColumns"} =>
       LET before == sheets[1].columns
           after == sheets'[1].columns
           addressed == {k + 1 : k \in call'.index..call'.last}
           Set(column) ==
             CASE call'.op = "hideColumn" -> column.hidden = Bool(TRUE)
               [] call'.op = "setColumnAutoFit" -> column.width = Num(0)
               [] call'.op = "setColumnOutlineLevel" -> column.outlineLevel = Num(2)
               [] call'.op = "groupColumns" -> column.outlineLevel = Num(1)
       IN  /\ \A k \in addressed : k \in DOMAIN after /\ Set(after[k])
           /\ \A k \in DOMAIN before \ addressed : after[k] = before[k]]_vars

-----------------------------------------------------------------------------
(* C29: with period 'week' the records of one timeline section all have their *)
(* dates in the same ISO week, the same span from a Monday to the Sunday      *)
(* after; 2024-01-01 and 2024-12-30 are never in the same section.            *)

\* the day number of the Monday of the week of a date
MondayOf(date) == DateUTC(date.y, date.m, date.d) - (IsoWeekday(date) - 1)

C29_BucketIsOneIsoWeek ==
  WeekCall =>
    \A c \in DOMAIN call.configs :
      \A i \in DOMAIN call.configs[c].data, j \in DOMAIN call.configs[c].data :
        MondayOf(call.configs[c].data[i].d) = MondayOf(call.configs[c].data[j].d)

-----------------------------------------------------------------------------
(* C30: exportToCSV(data, {headers}) is the header line and then one line per *)
(* record, in order, whose i-th field is the string form of the record's      *)
(* value under headers[i], 0 and false included; only an undefined or null    *)
(* value gives an empty field.                                                *)

\* the text of the lines, a field with a comma in double quotes
CsvOfValues(headers) ==
  LET field(v) == IF ~NotNullish(v) THEN Str(<<>>)
                  ELSE IF Includes(JsString(v), ",")
                       THEN Str(<<"\"">> \o JsString(v) \o <<"\"">>)
                       ELSE Str(JsString(v))
      line(values) == Str(JsJoin([i \in DOMAIN values |-> field(values[i])], <<",">>))
      lines == << line([i \in DOMAIN headers |-> Str(<<headers[i]>>)]) >>
                 \o [k \in DOMAIN data |->
                       line([i \in DOMAIN headers |-> Prop(data[k], headers[i])])]
  IN  Str(JsJoin(lines, <<"\n">>))

C30_FalsyValuesWritten ==
  (call.op = "exportToCSV" /\ "headers" \in DOMAIN call.options) =>
    exported = CsvOfValues(call.options.headers.v)

=============================================================================
